---- MODULE Spec2Model ----
(***************************************************************************)
(* Telemetry synchronisation pipeline of atg-tlink: the upsert store       *)
(* (app/db.py), the push/sync ingestion paths (app/sync_service.py,        *)
(* app/routes.py), the OAuth token cache (app/tlink.py) and the sync log   *)
(* files (app/log_utils.py).                                               *)
(*                                                                         *)
(* Encoding of Python values: every scalar is an integer code.             *)
(*   NULL (-1) is None / an absent key, 0 is a falsy non-None value        *)
(*   (0, "", False), a positive code is a truthy value.                    *)
(* A raw time string is the code 10*format + second, see TimeStr.          *)
(***************************************************************************)
EXTENDS Integers, Sequences, FiniteSets, TLC

VARIABLES
    devices,    \* committed rows of table devices:         id -> row
    sensors,    \* committed rows of table sensors:         id -> row
    readings,   \* committed rows of table sensor_readings: id -> row
    now,        \* wall clock in ticks (TicksPerSec ticks per second)
    tx,         \* per thread: the process_push_payload call in progress
    web,        \* the webhook request thread (routes.ingest_push)
    sync,       \* the scheduled sync pass thread (sync_configured_users)
    log         \* the append-only sync log (entries written by _log_sync_event)

VARIABLES
    cache,      \* the TLinkOAuthClient fields: access token, type, expiry
    lock,       \* the thread inside "with self._lock", or NoOwner
    api,        \* per thread: the _invoke_tlink_sensor_api call in progress
    auth,       \* per thread: what its latest token lookup saw and did
    fetches,    \* token requests sent so far; the n-th one returns token n
    settings,   \* the required TLINK_OAUTH_* settings: name -> value
    logfs       \* the log directory: "ok", or "failing" (writes raise)

VARIABLES
    files,      \* the log directory tree: for every device directory that
                \* exists, date -> the lines of that day's file
    written,    \* the arguments of the write_sync_log calls made, in order
    reply,      \* what the latest read of the log files returned
    pending     \* per writer: the part of its line not yet in the file

VARIABLES
    sweep,      \* per sweeper: the prune_sync_logs call in progress
    hook,       \* the webhook request being answered, as ingest_push saw it
    alias,      \* the latest record normalised, and what it was resolved to
    task,       \* the function decorated with @task and its wrapper call
    export      \* the latest row turned into an export entry, and its connect

storeVars == <<devices, sensors, readings>>
authVars == <<cache, lock, api, auth, fetches, settings>>
logVars == <<files, written, reply, pending>>
callVars == <<hook, alias, task, export>>
jobVars == <<sweep, callVars>>
vars == <<devices, sensors, readings, now, tx, web, sync, log, authVars, logfs,
          logVars, jobVars>>

(***************************************************************************)
(* Bounds                                                                  *)
(***************************************************************************)
MaxWebCalls == 2      \* webhook requests handled in one behaviour of SpecWeb
MaxRacePushes == 1    \* webhook requests racing with the sync pass in Spec
MaxClock == 4         \* last clock tick
MaxFetches == 2       \* token requests sent in one behaviour of SpecAuth
MaxLines == 3         \* write_sync_log calls in one behaviour of the read
                      \* specifications
MaxLineRuns == 1      \* write_sync_log calls in one behaviour of SpecLogLine
                      \* and of SpecPruneRace
MaxDays == 3
MaxPieces == 2        \* writes the operating system splits one line into
MaxTicks == 3         \* times the schedule of a threaded task comes due
MaxRuns == 2          \* days the clock runs in the retention specifications
MaxLog == 2           \* entries the sync log holds at most: the remote
                      \* records and failed remote calls of one behaviour

(***************************************************************************)
(* Python values                                                           *)
(***************************************************************************)
NULL == -1
Truthy(v) == v > 0
Or2(a, b) == IF Truthy(a) THEN a ELSE b
Or3(a, b, c) == Or2(Or2(a, b), c)

TicksPerSec == 2
FmtDash == 1     \* "%Y-%m-%d %H:%M:%S"
FmtSlash == 2    \* "%Y/%m/%d %H:%M:%S"
FmtIsoT == 3     \* "%Y-%m-%dT%H:%M:%S"
FmtIsoZ == 4     \* "%Y-%m-%dT%H:%M:%SZ", matched by no format of coerce_datetime
TimeStr(fmt, sec) == 10 * fmt + sec

\* utils.coerce_datetime: the datetime (in ticks) a raw string parses to
coerce_datetime(value) ==
    IF ~Truthy(value) THEN NULL
    ELSE IF (value \div 10) \in {FmtDash, FmtSlash, FmtIsoT}
         THEN (value % 10) * TicksPerSec
         ELSE NULL

\* utils.to_storage_timestamp: drop the sub-second part, format to the second
to_storage_timestamp(value) ==
    IF value = NULL THEN NULL ELSE value \div TicksPerSec

utcnow == now

StrNo == 7       \* a non-empty string of {"0","false","f","no"}
NonNumeric == 8  \* a non-empty string that int() rejects

\* sync_service._interpret_bool followed by db._to_bit
interpret_bool(value) ==
    IF value = NULL THEN NULL
    ELSE IF value = StrNo THEN 0
    ELSE IF Truthy(value) THEN 1 ELSE 0

to_bit(value) == IF value = NULL THEN NULL ELSE IF value = 1 THEN 1 ELSE 0

\* sync_service._coerce_int
coerce_int(value) ==
    IF value = NULL THEN NULL
    ELSE IF value \in {NonNumeric, StrNo} THEN NULL
    ELSE value

\* sync_service._safe_str
safe_str(value) == IF value = NULL THEN NULL ELSE value

(***************************************************************************)
(* Upsert store (app/db.py).  A table is a function from the row id to    *)
(* the row.  The unique keys are those of sql/schema.sql as the design    *)
(* documents them; the statements below rely on them through              *)
(* ON DUPLICATE KEY UPDATE and INSERT IGNORE.                              *)
(***************************************************************************)
DeviceKey(row) == row.external_id
SensorKey(row) == <<row.device_id, row.external_id>>
ReadingKey(row) == <<row.sensor_id, row.recorded_at>>

Min(S) == CHOOSE x \in S : \A y \in S : x <= y

\* COALESCE(VALUES(col), col)
Coalesce(incoming, stored) == IF incoming # NULL THEN incoming ELSE stored

DeviceCols == {"parent_user_id", "user_id", "device_name", "device_no",
               "group_id", "lat", "lng", "product_id", "product_type",
               "protocol_label", "last_flag", "last_raw_payload",
               "last_push_time"}
SensorCols == {"sensor_type_id", "sensor_name", "is_line", "is_alarm",
               "unit", "latest_value", "latest_recorded_at"}

\* MergeRow with col = VALUES(col) instead of COALESCE(VALUES(col), col)
MergeRowOverwrite(stored, incoming, cols) ==
    [c \in DOMAIN stored |-> IF c \in cols THEN incoming[c] ELSE stored[c]]

\* the ON DUPLICATE KEY UPDATE clause of upsert_device / upsert_sensor
MergeRow(stored, incoming, cols) ==
    [c \in DOMAIN stored |->
        IF c \in cols THEN Coalesce(incoming[c], stored[c]) ELSE stored[c]]

\* upsert_device as a plain INSERT into a table without the unique key
upsert_device_always_insert(tbl, newId, row) ==
    [tbl |-> [id \in DOMAIN tbl \cup {newId} |->
                IF id = newId THEN row ELSE tbl[id]],
     id |-> newId, inserted |-> TRUE, error |-> FALSE]

\* db.upsert_device on the table view `tbl`; newId is the AUTO_INCREMENT value.
\* Result: the table after the statement, the id the trailing SELECT returns,
\* and whether a row was inserted.
upsert_device(tbl, newId, row) ==
    LET hit == {id \in DOMAIN tbl : DeviceKey(tbl[id]) = DeviceKey(row)}
    IN IF hit = {}
       THEN [tbl |-> [id \in DOMAIN tbl \cup {newId} |->
                        IF id = newId THEN row ELSE tbl[id]],
             id |-> newId, inserted |-> TRUE, error |-> FALSE]
       ELSE LET k == Min(hit)
            IN [tbl |-> [tbl EXCEPT ![k] = MergeRow(tbl[k], row, DeviceCols)],
                id |-> k, inserted |-> FALSE, error |-> FALSE]

\* db.upsert_sensor
upsert_sensor(tbl, newId, row) ==
    LET hit == {id \in DOMAIN tbl : SensorKey(tbl[id]) = SensorKey(row)}
    IN IF hit = {}
       THEN [tbl |-> [id \in DOMAIN tbl \cup {newId} |->
                        IF id = newId THEN row ELSE tbl[id]],
             id |-> newId, inserted |-> TRUE, error |-> FALSE]
       ELSE LET k == Min(hit)
            IN [tbl |-> [tbl EXCEPT ![k] = MergeRow(tbl[k], row, SensorCols)],
                id |-> k, inserted |-> FALSE, error |-> FALSE]

\* insert_reading as INSERT without IGNORE: a duplicate key is an error
insert_reading_strict(tbl, newId, row) ==
    LET hit == {id \in DOMAIN tbl : ReadingKey(tbl[id]) = ReadingKey(row)}
    IN IF hit = {}
       THEN [tbl |-> [id \in DOMAIN tbl \cup {newId} |->
                        IF id = newId THEN row ELSE tbl[id]],
             inserted |-> TRUE, error |-> FALSE]
       ELSE [tbl |-> tbl, inserted |-> FALSE, error |-> TRUE]

\* db.insert_reading: INSERT IGNORE, a duplicate key leaves the table alone
insert_reading(tbl, newId, row) ==
    LET hit == {id \in DOMAIN tbl : ReadingKey(tbl[id]) = ReadingKey(row)}
    IN IF hit = {}
       THEN [tbl |-> [id \in DOMAIN tbl \cup {newId} |->
                        IF id = newId THEN row ELSE tbl[id]],
             inserted |-> TRUE, error |-> FALSE]
       ELSE [tbl |-> tbl, inserted |-> FALSE, error |-> FALSE]

(***************************************************************************)
(* process_push_payload (app/sync_service.py): the arguments it passes to *)
(* the store, from a webhook-shaped payload.                               *)
(***************************************************************************)
DeviceArgs(payload, push_time_str) ==
    [external_id      |-> payload.deviceId,
     parent_user_id   |-> payload.parentUserId,
     user_id          |-> NULL,
     device_name      |-> Or2(payload.deviceName, payload.device_name),
     device_no        |-> Or3(payload.deviceNo, payload.device_no, payload.rawData),
     group_id         |-> coerce_int(Or2(payload.groupId, payload.group_id)),
     lat              |-> safe_str(payload.lat),
     lng              |-> safe_str(payload.lng),
     product_id       |-> Or2(payload.productId, payload.product_id),
     product_type     |-> Or2(payload.productType, payload.product_type),
     protocol_label   |-> Or2(payload.protocolLabel, payload.protocol_label),
     last_flag        |-> payload.flag,
     last_raw_payload |-> payload.rawData,
     last_push_time   |-> push_time_str]

SensorArgs(entry, device_id, push_time_str) ==
    [external_id        |-> entry.sensorsId,
     device_id          |-> device_id,
     sensor_type_id     |-> entry.sensorsTypeId,
     sensor_name        |-> Or2(entry.sensorName, entry.sensor_name),
     is_line            |-> to_bit(interpret_bool(entry.isLine)),
     is_alarm           |-> to_bit(interpret_bool(entry.isAlarm)),
     unit               |-> entry.unit,
     latest_value       |-> Or2(entry.value, entry.reVal),
     latest_recorded_at |-> push_time_str]

ReadingArgs(entry, payload, sensor_id, push_time_str) ==
    [sensor_id        |-> sensor_id,
     recorded_at      |-> push_time_str,
     sensor_timestamp |-> entry.times,
     is_alarm         |-> to_bit(interpret_bool(entry.isAlarm)),
     is_line          |-> to_bit(interpret_bool(entry.isLine)),
     raw_value        |-> entry.reVal,
     scaled_value     |-> entry.value,
     raw_payload      |-> payload.rawData]

\* line 28 without the test of the sensor list
PayloadInvalidWithoutSensors(payload) ==
    \/ ~Truthy(payload.deviceId)
    \/ ~Truthy(payload.deviceUserid)

\* line 28: not device_id or not user_id or not sensors
PayloadInvalid(payload) ==
    \/ ~Truthy(payload.deviceId)
    \/ ~Truthy(payload.deviceUserid)
    \/ payload.sensorsDates = << >>

\* lines 32-33: coerce_datetime(payload.get("time")) or datetime.utcnow()
PushTimeStr(payload, clock) ==
    LET parsed == coerce_datetime(payload.time)
    IN to_storage_timestamp(IF parsed = NULL THEN clock ELSE parsed)

(***************************************************************************)
(* Inputs: webhook bodies                                                  *)
(***************************************************************************)
BaseEntry ==
    [sensorsId |-> NULL, sensorsTypeId |-> NULL, sensorName |-> NULL,
     sensor_name |-> NULL, isLine |-> NULL, isAlarm |-> NULL, unit |-> NULL,
     value |-> NULL, reVal |-> NULL, times |-> NULL]

BasePayload ==
    [deviceId |-> NULL, deviceUserid |-> NULL, parentUserId |-> NULL,
     time |-> NULL, deviceName |-> NULL, device_name |-> NULL,
     deviceNo |-> NULL, device_no |-> NULL, rawData |-> NULL,
     groupId |-> NULL, group_id |-> NULL, lat |-> NULL, lng |-> NULL,
     productId |-> NULL, product_id |-> NULL, productType |-> NULL,
     product_type |-> NULL, protocolLabel |-> NULL, protocol_label |-> NULL,
     flag |-> NULL, sensorsDates |-> << >>]

\* a sensor entry: id, value and device-reported time, the optional
\* descriptive keys all set to d
Entry(sid, val, tms, d) ==
    [BaseEntry EXCEPT !.sensorsId = sid, !.value = val, !.times = tms,
                      !.sensorsTypeId = d, !.sensorName = d, !.isLine = d,
                      !.isAlarm = d, !.unit = d, !.reVal = d]

\* a webhook body: the optional device keys all set to d
Payload(dev, usr, tm, d, entries) ==
    [BasePayload EXCEPT !.deviceId = dev, !.deviceUserid = usr, !.time = tm,
                        !.sensorsDates = entries,
                        !.parentUserId = d, !.deviceName = d, !.deviceNo = d,
                        !.rawData = d, !.groupId = d, !.lat = d, !.lng = d,
                        !.productId = d, !.productType = d,
                        !.protocolLabel = d, !.flag = d]

DeviceIds == {1, 2}
UserId == 7
Details == {NULL, 1}
PushTimes == {NULL, TimeStr(FmtIsoT, 1)}
SensorTime == TimeStr(FmtIsoZ, 1)

EntryLists ==
    { <<Entry(1, 1, SensorTime, NULL)>>,
      <<Entry(NULL, 1, SensorTime, NULL), Entry(2, 1, SensorTime, 1)>>,
      <<Entry(1, 1, SensorTime, 1), Entry(1, 2, SensorTime, NULL)>> }

WebPayloads ==
    { Payload(1, UserId, tm, d, es) :
        tm \in PushTimes, d \in Details, es \in EntryLists }
    \cup { Payload(NULL, UserId, NULL, NULL, <<Entry(1, 1, SensorTime, NULL)>>),
           Payload(1, 0, NULL, NULL, <<Entry(1, 1, SensorTime, NULL)>>),
           Payload(1, UserId, NULL, NULL, << >>) }

(***************************************************************************)
(* process_push_payload as a transaction of one thread.  The writes of a  *)
(* transaction stay in its own overlay (wdev, wsen, wread) until commit;  *)
(* a row written by an open transaction is locked against the others.     *)
(***************************************************************************)
Threads == {"web", "sync"}
NoRows == << >>

IdleTx ==
    [pc |-> "idle", payload |-> BasePayload, push_time_str |-> NULL,
     device_id |-> NULL, sensor_id |-> NULL, i |-> 0, processed |-> 0,
     exc |-> "none", wdev |-> NoRows, wsen |-> NoRows, wread |-> NoRows,
     inserted |-> 0, fresh |-> 0]

Overlay(tbl, w) ==
    [id \in DOMAIN tbl \cup DOMAIN w |-> IF id \in DOMAIN w THEN w[id] ELSE tbl[id]]

Put(w, id, row) ==
    [k \in DOMAIN w \cup {id} |-> IF k = id THEN row ELSE w[k]]

DevView(t) == Overlay(devices, tx[t].wdev)
SenView(t) == Overlay(sensors, tx[t].wsen)
ReadView(t) == Overlay(readings, tx[t].wread)

DeviceLocked(t, row) ==
    \E u \in Threads \ {t} : \E id \in DOMAIN tx[u].wdev :
        DeviceKey(tx[u].wdev[id]) = DeviceKey(row)
SensorLocked(t, row) ==
    \E u \in Threads \ {t} : \E id \in DOMAIN tx[u].wsen :
        SensorKey(tx[u].wsen[id]) = SensorKey(row)
ReadingLocked(t, row) ==
    \E u \in Threads \ {t} : \E id \in DOMAIN tx[u].wread :
        ReadingKey(tx[u].wread[id]) = ReadingKey(row)

\* the AUTO_INCREMENT value of the next insert: above every id in use
Max(S) == CHOOSE x \in S : \A y \in S : x >= y
NextDeviceId ==
    1 + Max({0} \cup DOMAIN devices \cup UNION {DOMAIN tx[u].wdev : u \in Threads})
NextSensorId ==
    1 + Max({0} \cup DOMAIN sensors \cup UNION {DOMAIN tx[u].wsen : u \in Threads})
NextReadingId ==
    1 + Max({0} \cup DOMAIN readings \cup UNION {DOMAIN tx[u].wread : u \in Threads})

\* lines 24-36: validation, push time, connection
BeginPush(payload) ==
    IF PayloadInvalid(payload)
    THEN [IdleTx EXCEPT !.pc = "raised", !.exc = "ValueError", !.payload = payload]
    ELSE [IdleTx EXCEPT !.pc = "device", !.payload = payload,
                        !.push_time_str = PushTimeStr(payload, utcnow)]

\* where the loop of lines 56-85 stands after entry i
AfterEntry(t, i) ==
    IF i >= Len(tx[t].payload.sensorsDates) THEN "commit" ELSE "sensor"

\* lines 38-54
PushUpsertDevice(t) ==
    /\ tx[t].pc = "device"
    /\ LET row == DeviceArgs(tx[t].payload, tx[t].push_time_str)
           r == upsert_device(DevView(t), NextDeviceId, row)
       IN /\ ~DeviceLocked(t, row)
          /\ IF r.error
             THEN /\ tx' = [tx EXCEPT ![t] = [IdleTx EXCEPT !.pc = "raised",
                                !.exc = "IntegrityError", !.payload = tx[t].payload]]
             ELSE /\ tx' = [tx EXCEPT ![t].wdev = Put(@, r.id, r.tbl[r.id]),
                                      ![t].device_id = r.id,
                                      ![t].i = 0,
                                      ![t].pc = AfterEntry(t, 0)]
    /\ UNCHANGED <<devices, sensors, readings, now, web, sync, log, authVars, logfs, logVars, jobVars>>

\* lines 56-85, one iteration of the loop: an entry without sensorsId is
\* skipped, any other is upserted as a sensor and inserted as a reading
PushEntry(t) ==
    /\ tx[t].pc = "sensor"
    /\ LET entry == tx[t].payload.sensorsDates[tx[t].i + 1]
           srow == SensorArgs(entry, tx[t].device_id, tx[t].push_time_str)
           s == upsert_sensor(SenView(t), NextSensorId, srow)
           rrow == ReadingArgs(entry, tx[t].payload, s.id, tx[t].push_time_str)
           view == ReadView(t)
           r == insert_reading(view, NextReadingId, rrow)
           absent == \A id \in DOMAIN view : ReadingKey(view[id]) # ReadingKey(rrow)
       IN IF entry.sensorsId = NULL
          THEN tx' = [tx EXCEPT ![t].i = @ + 1,
                                ![t].pc = AfterEntry(t, tx[t].i + 1)]
          ELSE /\ ~SensorLocked(t, srow)
               /\ ~ReadingLocked(t, rrow)
               /\ IF s.error \/ r.error
                  THEN tx' = [tx EXCEPT ![t] = [IdleTx EXCEPT !.pc = "raised",
                                  !.exc = "IntegrityError",
                                  !.payload = tx[t].payload]]
                  ELSE tx' = [tx EXCEPT
                             ![t].wsen = Put(@, s.id, s.tbl[s.id]),
                             ![t].sensor_id = s.id,
                             ![t].wread = IF r.inserted
                                          THEN Put(@, NextReadingId,
                                                   r.tbl[NextReadingId])
                                          ELSE @,
                             ![t].processed = @ + 1,
                             ![t].inserted = IF r.inserted THEN @ + 1 ELSE @,
                             ![t].fresh = IF absent THEN @ + 1 ELSE @,
                             ![t].i = @ + 1,
                             ![t].pc = AfterEntry(t, tx[t].i + 1)]
    /\ UNCHANGED <<devices, sensors, readings, now, web, sync, log, authVars, logfs, logVars, jobVars>>

\* line 86: conn.commit(), then return processed (line 91)
PushCommit(t) ==
    /\ tx[t].pc = "commit"
    /\ devices' = DevView(t)
    /\ sensors' = SenView(t)
    /\ readings' = ReadView(t)
    /\ tx' = [tx EXCEPT ![t].pc = "returned", ![t].wdev = NoRows,
                        ![t].wsen = NoRows, ![t].wread = NoRows]
    /\ UNCHANGED <<now, web, sync, log, authVars, logfs, logVars, jobVars>>

\* PushFail on a connection left in autocommit mode: the statements already
\* executed stay in the store
PushFailAutocommit(t) ==
    /\ tx[t].pc \in {"device", "sensor", "commit"}
    /\ devices' = DevView(t)
    /\ sensors' = SenView(t)
    /\ readings' = ReadView(t)
    /\ tx' = [tx EXCEPT ![t] = [IdleTx EXCEPT !.pc = "raised",
                                  !.exc = "StorageError",
                                  !.payload = tx[t].payload,
                                  !.processed = tx[t].processed]]
    /\ UNCHANGED <<now, web, sync, log, authVars, logfs, logVars, jobVars>>

\* lines 87-89: a statement or the commit fails (storage outage, lock wait
\* timeout, rejected value): rollback, then the exception is re-raised
PushFail(t) ==
    /\ tx[t].pc \in {"device", "sensor", "commit"}
    /\ tx' = [tx EXCEPT ![t] = [IdleTx EXCEPT !.pc = "raised",
                                  !.exc = "StorageError",
                                  !.payload = tx[t].payload,
                                  !.processed = tx[t].processed]]
    /\ UNCHANGED <<devices, sensors, readings, now, web, sync, log, authVars, logfs, logVars, jobVars>>

(***************************************************************************)
(* Webhook path: routes.ingest_push                                        *)
(***************************************************************************)
NoResponse == [status |-> 0, storedReadings |-> 0]

\* lines 35-49 of routes.py, then process_push_payload is entered
WebRequest(max, bodies) ==
    /\ tx["web"].pc = "idle"
    /\ web.calls < max
    /\ \E payload \in bodies :
        tx' = [tx EXCEPT !["web"] = BeginPush(payload)]
    /\ web' = [web EXCEPT !.calls = @ + 1, !.response = NoResponse]
    /\ UNCHANGED <<devices, sensors, readings, now, sync, log, authVars, logfs, logVars, jobVars>>

\* lines 50-55 of routes.py: 400 on ValueError, 200 with the stored count;
\* any other exception is answered 500 by the framework
WebRespond ==
    /\ tx["web"].pc \in {"returned", "raised"}
    /\ web' = [web EXCEPT
            !.response =
                IF tx["web"].pc = "returned"
                THEN [status |-> 200, storedReadings |-> tx["web"].processed]
                ELSE IF tx["web"].exc = "ValueError"
                     THEN [status |-> 400, storedReadings |-> 0]
                     ELSE [status |-> 500, storedReadings |-> 0],
            !.prev = IF tx["web"].pc = "returned" THEN tx["web"].payload ELSE @]
    /\ tx' = [tx EXCEPT !["web"] = IdleTx]
    /\ UNCHANGED <<devices, sensors, readings, now, sync, log, authVars, logfs, logVars, jobVars>>

(***************************************************************************)
(* Sync path: records of the remote API and their normalisation            *)
(***************************************************************************)
FlagOk == 5      \* the flag "00"
FlagBad == 6     \* any other flag of the remote API
FlagSync == 9    \* the literal "sync"

BaseRemoteSensor ==
    [sensorsId |-> NULL, sensorId |-> NULL, id |-> NULL, updateDate |-> NULL,
     heartbeatDate |-> NULL, sensorTypeId |-> NULL, sensorName |-> NULL,
     sensor_name |-> NULL, isLine |-> NULL, isAlarms |-> NULL,
     send_value |-> NULL, value |-> NULL, unit |-> NULL]

BaseRemoteDevice ==
    [sensorsList |-> << >>, updateDate |-> NULL, createDate |-> NULL,
     flag |-> NULL, userId |-> NULL, parentUserId |-> NULL, parentUser |-> NULL,
     deviceNo |-> NULL, device_no |-> NULL, id |-> NULL, deviceId |-> NULL,
     deviceName |-> NULL, device_name |-> NULL, groupId |-> NULL,
     group_id |-> NULL, lat |-> NULL, lng |-> NULL, productId |-> NULL,
     product_id |-> NULL, productType |-> NULL, product_type |-> NULL,
     protocolLabel |-> NULL, protocol_label |-> NULL]

\* sync_service._sensor_entry_from_remote, for a sensor it does not drop
sensor_entry_from_remote(sensor) ==
    [times         |-> Or2(sensor.updateDate, sensor.heartbeatDate),
     sensorsId     |-> Or3(sensor.sensorsId, sensor.sensorId, sensor.id),
     sensorsTypeId |-> sensor.sensorTypeId,
     sensorName    |-> Or2(sensor.sensorName, sensor.sensor_name),
     sensor_name   |-> NULL,
     isLine        |-> sensor.isLine,
     isAlarm       |-> sensor.isAlarms,
     reVal         |-> Or2(sensor.send_value, sensor.value),
     value         |-> sensor.value,
     unit          |-> sensor.unit]

\* lines 310-316 without the test: every sensor is kept
SensorResolvableAlways(sensor) == TRUE

\* lines 310-316: the sensor has a resolvable identifier
SensorResolvable(sensor) ==
    Or3(sensor.sensorsId, sensor.sensorId, sensor.id) # NULL

RECURSIVE NormalizeSensors(_)
NormalizeSensors(list) ==
    IF list = << >> THEN << >>
    ELSE IF SensorResolvable(Head(list))
         THEN <<sensor_entry_from_remote(Head(list))>> \o NormalizeSensors(Tail(list))
         ELSE NormalizeSensors(Tail(list))

\* sync_service._payload_from_remote_device
payload_from_remote_device(device, default_user_id, default_flag) ==
    LET sensor_entries == NormalizeSensors(device.sensorsList)
        first_time == Or2(device.updateDate, device.createDate)
        base_time == IF ~Truthy(first_time) /\ sensor_entries # << >>
                     THEN sensor_entries[1].times ELSE first_time
    IN [flag           |-> Or3(device.flag, default_flag, FlagSync),
        deviceUserid   |-> Or2(device.userId, default_user_id),
        parentUserId   |-> Or2(device.parentUserId, device.parentUser),
        sensorsDates   |-> sensor_entries,
        time           |-> base_time,
        rawData        |-> device.deviceNo,
        deviceId       |-> Or2(device.id, device.deviceId),
        deviceName     |-> Or2(device.deviceName, device.device_name),
        device_name    |-> NULL,
        deviceNo       |-> Or2(device.deviceNo, device.device_no),
        device_no      |-> NULL,
        groupId        |-> Or2(device.groupId, device.group_id),
        group_id       |-> NULL,
        lat            |-> device.lat,
        lng            |-> device.lng,
        productId      |-> Or2(device.productId, device.product_id),
        product_id     |-> NULL,
        productType    |-> Or2(device.productType, device.product_type),
        product_type   |-> NULL,
        protocolLabel  |-> Or2(device.protocolLabel, device.protocol_label),
        protocol_label |-> NULL]

\* a remote sensor: id, value, update time, the optional keys all set to d
RemoteSensor(sid, val, upd, d) ==
    [BaseRemoteSensor EXCEPT !.sensorsId = sid, !.value = val,
                             !.updateDate = upd, !.sensorTypeId = d,
                             !.sensorName = d, !.isLine = d, !.isAlarms = d,
                             !.unit = d]

\* a remote device: id, update time, sensors, the optional keys all set to d
RemoteDevice(dev, upd, d, list) ==
    [BaseRemoteDevice EXCEPT !.id = dev, !.updateDate = upd,
                             !.sensorsList = list, !.deviceName = d,
                             !.deviceNo = d, !.groupId = d, !.lat = d,
                             !.lng = d, !.productId = d, !.productType = d,
                             !.protocolLabel = d, !.parentUserId = d]

RemoteTimes == {TimeStr(FmtDash, 1), TimeStr(FmtDash, 2)}

RemoteDetails == {NULL, 2}

RemoteDevices ==
    { RemoteDevice(1, upd, d,
                   <<RemoteSensor(1, d + 3, upd, d), RemoteSensor(NULL, 1, upd, d)>>) :
        upd \in RemoteTimes, d \in RemoteDetails }
    \cup { RemoteDevice(2, TimeStr(FmtDash, 1), 2,
                        <<RemoteSensor(1, 2, TimeStr(FmtDash, 1), 2)>>) }
    \cup { RemoteDevice(NULL, TimeStr(FmtDash, 1), NULL,
                        <<RemoteSensor(1, 1, TimeStr(FmtDash, 1), NULL)>>),
           RemoteDevice(2, TimeStr(FmtDash, 1), NULL, << >>) }

(***************************************************************************)
(* Sync path: sync_configured_users / sync_user_devices.  The answer of   *)
(* the remote API is an input here; the records of dataList are drawn one *)
(* at a time as the loop reaches them.                                     *)
(***************************************************************************)
LogEntry(status, user, device, nsensors, nreadings, http, message) ==
    [status |-> status, user |-> user, device |-> device, sensors |-> nsensors,
     readings |-> nreadings, http |-> http, message |-> message,
     written |-> TRUE]

\* log_utils.write_sync_log: the line is appended, or the write raises.
\* log keeps every call in order; written = FALSE marks a call that raised
\* and left no line.
write_sync_log(entries, entry, fs) ==
    IF fs = "failing"
    THEN [entries |-> Append(entries, [entry EXCEPT !.written = FALSE]),
          raised |-> TRUE]
    ELSE [entries |-> Append(entries, entry), raised |-> FALSE]

\* sync_service._log_sync_event: a failed write is caught and reported to
\* the application logger only
log_sync_event_raising(entries, entry) == write_sync_log(entries, entry, logfs)
log_sync_event(entries, entry) ==
    [write_sync_log(entries, entry, logfs) EXCEPT !.raised = FALSE]

\* the lines the log store holds
LogLines == SelectSeq(log, LAMBDA e : e.written)

ZeroSummary == [users |-> 0, devices |-> 0, readings |-> 0]

\* lines 215-226 with export_atg_snapshot() moved behind the try statement
ExportCallsRegardless(raised) == 1

\* lines 215-226: export_atg_snapshot() is called inside the try, after
\* sync_user_devices has returned; the calls made when it raised or not
ExportCalls(raised) == IF raised THEN 0 ELSE 1

\* lines 215-230 of sync_configured_users when sync_user_devices raised exc
PassFailed(s, exc) ==
    [s EXCEPT !.pc = "idle", !.remaining = 0, !.summary = ZeroSummary,
              !.outcome = "failed", !.exports = ExportCalls(TRUE), !.exc = exc]

\* the pass after a statement that may raise: an exception leaving
\* sync_user_devices ends the pass
Raises(r, s) == IF r.raised THEN PassFailed(s, "OSError") ELSE s

\* TLINK_SYNC_PAGE_SIZE as configured
PageSize == 2

\* the records the remote API returns for page currPage of an account of
\* total devices
RemotePage(total, currPage, pageSize) ==
    Max({0, Min({pageSize, total - (currPage - 1) * pageSize})})

\* lines 168-189: the except clause that lets the pass go on
ContinuesAfterAnyError(exc) == TRUE
ContinuesAfter(exc) == exc = "ValueError"

\* lines 106-119: the remote call raised requests.HTTPError
SyncApiHttpError ==
    /\ sync.pc = "idle" /\ Len(log) < MaxLog
    /\ \E status \in {401, 500} :
        log' = log_sync_event(log, LogEntry("error", UserId, UserId, 0, 0,
                                            status, "TLINK HTTP error")).entries
    /\ sync' = PassFailed([sync EXCEPT !.flag = NULL], "HTTPError")
    /\ UNCHANGED <<devices, sensors, readings, now, tx, web, authVars, logfs, logVars, jobVars>>

\* lines 120-130: the remote call raised any other exception
SyncApiError ==
    /\ sync.pc = "idle" /\ Len(log) < MaxLog
    /\ log' = log_sync_event(log, LogEntry("error", UserId, UserId, 0, 0,
                                           NULL, "remote call failed")).entries
    /\ \E exc \in {"ConnectionError", "ValueError"} :
        sync' = PassFailed([sync EXCEPT !.flag = NULL], exc)
    /\ UNCHANGED <<devices, sensors, readings, now, tx, web, authVars, logfs, logVars, jobVars>>

\* line 131 without the test: every flag is taken for "00"
FlagAcceptedAlways(flag) == TRUE

\* line 131: payload.get("flag") != "00"
FlagAccepted(flag) == flag = FlagOk

\* lines 131-136: the answer carries a flag other than "00", and one record
SyncBadFlag ==
    /\ sync.pc = "idle"
    /\ IF FlagAccepted(FlagBad)
       THEN /\ Len(log) < MaxLog
            /\ sync' = [sync EXCEPT !.pc = "loop", !.remaining = 1,
                                    !.account = 1, !.received = 1,
                                    !.total_devices = 0, !.total_readings = 0,
                                    !.outcome = "running", !.exports = 0,
                                    !.exc = "none", !.flag = FlagBad]
       ELSE sync' = PassFailed([sync EXCEPT !.flag = FlagBad], "RuntimeError")
    /\ UNCHANGED <<devices, sensors, readings, now, tx, web, log, authVars, logfs, logVars, jobVars>>

\* lines 208-213 of sync_configured_users: no TLINK_ACCOUNT_NUMBER is
\* configured, the pass is skipped
SyncSkipped ==
    /\ sync.pc = "idle"
    /\ sync' = [sync EXCEPT !.remaining = 0, !.account = 0, !.received = 0,
                            !.total_devices = 0, !.total_readings = 0,
                            !.summary = ZeroSummary, !.outcome = "skipped",
                            !.exports = 0, !.exc = "none", !.flag = NULL]
    /\ UNCHANGED <<devices, sensors, readings, now, tx, web, log, authVars, logfs, logVars, jobVars>>

\* lines 98-107 and 134-136: page 1 of the account's devices is requested;
\* the answer carries flag "00" and that page as dataList
SyncStart(accounts) ==
    /\ sync.pc = "idle"
    /\ \E total \in accounts :
        LET n == RemotePage(total, 1, PageSize) IN
        /\ n <= MaxLog - Len(log)
        /\ sync' = [sync EXCEPT !.pc = "loop", !.remaining = n,
                                !.account = total, !.received = n,
                                !.total_devices = 0, !.total_readings = 0,
                                !.outcome = "running", !.exports = 0,
                                !.exc = "none", !.flag = FlagOk]
    /\ UNCHANGED <<devices, sensors, readings, now, tx, web, log, authVars, logfs, logVars, jobVars>>

\* lines 138-167: the next record of dataList is normalised and, unless it
\* lacks a device id or sensors, handed to process_push_payload
SyncDevice(records) ==
    /\ sync.pc = "loop" /\ sync.remaining > 0
    /\ tx["sync"].pc = "idle"
    /\ \E device \in records :
        LET normalized_payload == payload_from_remote_device(device, UserId, FlagOk)
            sensor_entries == normalized_payload.sensorsDates
            device_external_id == normalized_payload.deviceId
        IN IF ~Truthy(device_external_id)
           THEN LET r == log_sync_event(log,
                        LogEntry("error", UserId, UserId, Len(sensor_entries), 0,
                                 NULL, "Missing deviceId in payload")) IN
                /\ log' = r.entries
                /\ sync' = Raises(r, [sync EXCEPT !.remaining = @ - 1])
                /\ UNCHANGED tx
           ELSE IF sensor_entries = << >>
           THEN LET r == log_sync_event(log,
                        LogEntry("error", UserId, device_external_id, 0, 0,
                                 NULL, "No sensors in payload")) IN
                /\ log' = r.entries
                /\ sync' = Raises(r, [sync EXCEPT !.remaining = @ - 1])
                /\ UNCHANGED tx
           ELSE /\ tx' = [tx EXCEPT !["sync"] = BeginPush(normalized_payload)]
                /\ UNCHANGED <<sync, log>>
    /\ UNCHANGED <<devices, sensors, readings, now, web, authVars, logfs, logVars, jobVars>>

\* lines 168-201: the outcome of process_push_payload for the record
SyncAfterPush ==
    /\ sync.pc = "loop"
    /\ tx["sync"].pc \in {"returned", "raised"}
    /\ LET payload == tx["sync"].payload
           n == Len(payload.sensorsDates)
           stored == tx["sync"].processed
       IN IF tx["sync"].pc = "returned"
          THEN LET r == log_sync_event(log,
                        LogEntry("success", UserId, payload.deviceId, n, stored,
                                 200, "sync complete")) IN
               /\ log' = r.entries
               /\ sync' = Raises(r, [sync EXCEPT !.remaining = @ - 1,
                                                 !.total_devices = @ + 1,
                                                 !.total_readings = @ + stored])
          ELSE LET r == log_sync_event(log,
                        LogEntry("error", UserId, payload.deviceId, n, 0,
                                 NULL, tx["sync"].exc)) IN
               /\ log' = r.entries
               /\ sync' = Raises(r, IF ContinuesAfter(tx["sync"].exc)
                                    THEN [sync EXCEPT !.remaining = @ - 1]
                                    ELSE PassFailed(sync, tx["sync"].exc))
    /\ tx' = [tx EXCEPT !["sync"] = IdleTx]
    /\ UNCHANGED <<devices, sensors, readings, now, web, authVars, logfs, logVars, jobVars>>

\* line 203, then lines 216-226 of sync_configured_users
SyncFinish ==
    /\ sync.pc = "loop" /\ sync.remaining = 0
    /\ tx["sync"].pc = "idle"
    /\ sync' = [sync EXCEPT !.pc = "idle",
                            !.summary = [users |-> 1,
                                         devices |-> sync.total_devices,
                                         readings |-> sync.total_readings],
                            !.outcome = "completed",
                            !.exports = ExportCalls(FALSE)]
    /\ UNCHANGED <<devices, sensors, readings, now, tx, web, log, authVars, logfs, logVars, jobVars>>

(***************************************************************************)
(* OAuth token cache (app/tlink.py) and the remote sensor API call         *)
(* (_invoke_tlink_sensor_api)                                              *)
(***************************************************************************)
ApiThreads == {"a", "b"}     \* threads that call the remote API
NoOwner == "none"            \* the client lock is free

RefreshBuffer == 1           \* TLINK_OAUTH_REFRESH_BUFFER as configured, seconds
MaxAttempts == 2             \* range(2) of the request loop
Bearer == 1                  \* token type "Bearer"
Mac == 2                     \* another token type a token response may name
TokenTypes == {NULL, Mac}    \* token_type of a token response
ExpiresIn == {-1, 1, 2}      \* expires_in of a token response, in seconds

\* what the remote API answers to one request
Statuses == {"ok", "nonjson", "unauthorized", "http_error"}
\* how a token request fails
FetchFailures == {"http_error", "no_access_token"}

\* the settings _refresh_token requires
OAuthSettings == {"TLINK_OAUTH_TOKEN_URL", "TLINK_OAUTH_CLIENT_ID",
                  "TLINK_OAUTH_CLIENT_SECRET", "TLINK_OAUTH_USERNAME",
                  "TLINK_OAUTH_PASSWORD"}
\* a configuration with every required setting present
AllSet == [name \in OAuthSettings |-> 1]

\* the list "missing" of _refresh_token
MissingFirstOnly(config) ==
    LET all == {name \in OAuthSettings : ~Truthy(config[name])} IN
    IF all = {} THEN {} ELSE {CHOOSE name \in all : TRUE}
MissingSettings(config) == {name \in OAuthSettings : ~Truthy(config[name])}

\* _refresh_token goes on to the token request
configured == MissingSettings(settings) = {}

\* TLinkOAuthClient.__init__
\* supplied: the token_type of the response that brought access_token, not
\* a field of the client
NewClient ==
    [access_token |-> NULL, token_type |-> Bearer, expires_at |-> 0,
     supplied |-> NULL]

\* TLinkOAuthClient._is_expired, time.time() read as clock (in ticks)
is_expired_without_buffer(c, clock) == clock >= Max({0, c.expires_at})
is_expired(c, clock) ==
    clock >= Max({0, c.expires_at - RefreshBuffer * TicksPerSec})

\* the test of _ensure_token that returns the cached token
CacheHit(c, clock) == Truthy(c.access_token) /\ ~is_expired(c, clock)

\* "with self._lock" of a thread that does not hold it can be entered
LockIgnored(t) == TRUE
LockFree(t) == lock = NoOwner

\* the exception a failed token request leaves _invoke_tlink_sensor_api with
FetchError(kind) ==
    IF kind = "http_error" THEN "HTTPError" ELSE "ValueError"

\* exc.response.status_code of the requests.HTTPError a response raises
StatusCode(status) ==
    CASE status = "unauthorized" -> 401
      [] status = "http_error" -> 500
      [] OTHER -> NULL

\* the 401 branch of the request loop
ShouldRetryEvery401(status, attempt) == status = "unauthorized"
ShouldRetry(status, attempt) == status = "unauthorized" /\ attempt = 0

\* a thread outside _invoke_tlink_sensor_api
IdleApi == [pc |-> "idle", attempt |-> 0, token |-> NULL, headers |-> << >>,
            statuses |-> << >>, invalidations |-> 0, inv_mark |-> 0,
            result |-> "none", named |-> {}, http |-> NULL, supplied |-> NULL]

\* observations of a thread's latest get_authorization_header call
IdleAuth == [active |-> FALSE, done |-> FALSE, stale0 |-> FALSE,
             overlap |-> {}, checked |-> FALSE, staleAtCheck |-> FALSE,
             cachedAtCheck |-> NULL, sent |-> 0, fetch_no |-> 0,
             token |-> NULL, expires_at |-> 0, invalidated |-> FALSE]

\* the cache holds no token, or the clock is within the refresh buffer of
\* the expiry
Stale(c, clock) ==
    c.access_token = NULL \/ clock >= c.expires_at - RefreshBuffer * TicksPerSec

\* thread t enters get_authorization_header
BeginAuth(obs, t) ==
    [u \in ApiThreads |->
        IF u = t
        THEN [IdleAuth EXCEPT !.active = TRUE, !.stale0 = Stale(cache, now),
                              !.overlap = {v \in ApiThreads \ {t} : obs[v].active}]
        ELSE IF obs[u].active
             THEN [obs[u] EXCEPT !.overlap = @ \cup {t}]
             ELSE [obs[u] EXCEPT !.overlap = @ \ {t}]]

\* thread t looks at the cache under the lock
Checked(obs, t) ==
    [obs EXCEPT ![t].checked = TRUE, ![t].staleAtCheck = Stale(cache, now),
                ![t].cachedAtCheck = cache.access_token]

\* get_authorization_header of thread t ends with token (NULL: it raised)
EndAuth(obs, t, token, expires_at) ==
    [obs EXCEPT ![t].active = FALSE, ![t].done = TRUE, ![t].token = token,
                ![t].expires_at = expires_at]

\* _invoke_tlink_sensor_api is called
ApiCall(t) ==
    /\ api[t].pc \in {"idle", "done"}
    /\ api' = [api EXCEPT ![t] = [IdleApi EXCEPT !.pc = "ensure"]]
    /\ auth' = BeginAuth(auth, t)
    /\ UNCHANGED <<cache, lock, fetches, settings>>
    /\ UNCHANGED <<devices, sensors, readings, now, tx, web, sync, log, logfs, logVars, jobVars>>

\* _ensure_token finds a token that is not expired
EnsureCached(t) ==
    /\ api[t].pc = "ensure"
    /\ LockFree(t)
    /\ CacheHit(cache, now)
    /\ api' = [api EXCEPT ![t].pc = "request", ![t].token = cache.access_token,
                          ![t].supplied = cache.supplied]
    /\ auth' = EndAuth(Checked(auth, t), t, cache.access_token, cache.expires_at)
    /\ UNCHANGED <<cache, lock, fetches, settings>>
    /\ UNCHANGED <<devices, sensors, readings, now, tx, web, sync, log, logfs, logVars, jobVars>>

\* _refresh_token finds a required setting missing: RuntimeError, which
\* _invoke_tlink_sensor_api turns into ValueError
EnsureMissingSettings(t) ==
    /\ api[t].pc = "ensure"
    /\ LockFree(t)
    /\ ~CacheHit(cache, now)
    /\ ~configured
    /\ api' = [api EXCEPT ![t].pc = "done", ![t].result = "ValueError",
                          ![t].named = MissingSettings(settings)]
    /\ auth' = EndAuth(Checked(auth, t), t, NULL, 0)
    /\ UNCHANGED <<cache, lock, fetches, settings>>
    /\ UNCHANGED <<devices, sensors, readings, now, tx, web, sync, log, logfs, logVars, jobVars>>

\* _refresh_token posts the token request, the lock held
EnsureFetch(t) ==
    /\ api[t].pc = "ensure"
    /\ LockFree(t)
    /\ ~CacheHit(cache, now)
    /\ configured
    /\ fetches < MaxFetches
    /\ lock' = t
    /\ fetches' = fetches + 1
    /\ api' = [api EXCEPT ![t].pc = "fetching"]
    /\ auth' = [Checked(auth, t) EXCEPT ![t].sent = 1, ![t].fetch_no = fetches + 1]
    /\ UNCHANGED <<cache, settings>>
    /\ UNCHANGED <<devices, sensors, readings, now, tx, web, sync, log, logfs, logVars, jobVars>>

\* the token response arrives with an access token
FetchOk(t) ==
    /\ api[t].pc = "fetching"
    /\ \E expires_in \in ExpiresIn, token_type \in TokenTypes :
         LET expires_at == now + Max({expires_in, 0}) * TicksPerSec IN
         /\ cache' = [access_token |-> fetches,
                      token_type |-> IF Truthy(token_type) THEN token_type
                                     ELSE cache.token_type,
                      expires_at |-> expires_at,
                      supplied |-> token_type]
         /\ auth' = EndAuth(auth, t, fetches, expires_at)
         /\ api' = [api EXCEPT ![t].pc = "request", ![t].token = fetches,
                               ![t].supplied = token_type]
    /\ lock' = NoOwner
    /\ UNCHANGED <<fetches, settings>>
    /\ UNCHANGED <<devices, sensors, readings, now, tx, web, sync, log, logfs, logVars, jobVars>>

\* the token request fails, or its response carries no access token
FetchFail(t) ==
    /\ api[t].pc = "fetching"
    /\ \E kind \in FetchFailures :
         api' = [api EXCEPT ![t].pc = "done", ![t].result = FetchError(kind),
                            ![t].http = StatusCode(kind)]
    /\ lock' = NoOwner
    /\ auth' = EndAuth(auth, t, NULL, 0)
    /\ UNCHANGED <<cache, fetches, settings>>
    /\ UNCHANGED <<devices, sensors, readings, now, tx, web, sync, log, logfs, logVars, jobVars>>

\* get_authorization_header pairs the token with the token type it reads
\* now, and the request is sent
ApiRequest(t) ==
    /\ api[t].pc = "request"
    /\ api' = [api EXCEPT ![t].pc = "await",
                          ![t].headers = Append(@, <<Or2(cache.token_type, Bearer),
                                                     api[t].token, api[t].supplied>>)]
    /\ UNCHANGED <<cache, lock, auth, fetches, settings>>
    /\ UNCHANGED <<devices, sensors, readings, now, tx, web, sync, log, logfs, logVars, jobVars>>

\* the answer of the remote API is handled
ApiResponse(t) ==
    /\ api[t].pc = "await"
    /\ \E status \in Statuses :
         api' = [api EXCEPT
                    ![t].statuses = Append(@, status),
                    ![t].pc = IF ShouldRetry(status, api[t].attempt)
                              THEN "invalidate" ELSE "done",
                    ![t].http = IF ShouldRetry(status, api[t].attempt)
                                THEN @ ELSE StatusCode(status),
                    ![t].result =
                        CASE ShouldRetry(status, api[t].attempt) -> @
                          [] status = "ok" -> "json"
                          [] status = "nonjson" -> "ValueError"
                          [] OTHER -> "HTTPError"]
    /\ UNCHANGED <<cache, lock, auth, fetches, settings>>
    /\ UNCHANGED <<devices, sensors, readings, now, tx, web, sync, log, logfs, logVars, jobVars>>

\* invalidate_token, then the next pass of the request loop
Invalidate(t) ==
    /\ api[t].pc = "invalidate"
    /\ LockFree(t)
    /\ cache' = [cache EXCEPT !.access_token = NULL, !.expires_at = 0]
    /\ LET again == api[t].attempt + 1 < MaxAttempts
           seen == [u \in ApiThreads |->
                       IF auth[u].active THEN [auth[u] EXCEPT !.invalidated = TRUE]
                       ELSE auth[u]] IN
       /\ api' = [api EXCEPT ![t].invalidations = @ + 1,
                             ![t].inv_mark = fetches,
                             ![t].attempt = @ + 1,
                             ![t].pc = IF again THEN "ensure" ELSE "done",
                             ![t].result = IF again THEN @ ELSE "None"]
       /\ auth' = IF again
                  THEN [BeginAuth(seen, t) EXCEPT ![t].stale0 = TRUE]
                  ELSE seen
    /\ UNCHANGED <<lock, fetches, settings>>
    /\ UNCHANGED <<devices, sensors, readings, now, tx, web, sync, log, logfs, logVars, jobVars>>

\* the thread sync_configured_users runs in
PassThread == "a"

\* requests.get / requests.post raises ConnectionError
ApiNetworkError(t) ==
    /\ api[t].pc = "await"
    /\ api' = [api EXCEPT ![t].pc = "done", ![t].result = "ConnectionError"]
    /\ UNCHANGED <<cache, lock, auth, fetches, settings>>
    /\ UNCHANGED <<devices, sensors, readings, now, tx, web, sync, log, logfs, logVars, jobVars>>

\* sync_service.py line 107: sync_user_devices calls
\* _invoke_tlink_sensor_api
RemoteCall ==
    /\ sync.pc = "idle" /\ api[PassThread].pc = "idle"
    /\ Len(log) < MaxLog
    /\ ApiCall(PassThread)

\* line 109 with the status dropped
RemoteStatusUnknown(a) == NULL

\* line 109: the status of the response of a requests.HTTPError; the
\* second except clause logs no status
RemoteStatus(a) == IF a.result = "HTTPError" THEN a.http ELSE NULL

\* lines 108-130: the remote call raised; one entry is logged and the
\* exception is raised again, which ends the pass
RemoteRaised ==
    /\ api[PassThread].pc = "done" /\ api[PassThread].result # "json"
    /\ LET a == api[PassThread] IN
        /\ log' = log_sync_event(log,
                      LogEntry("error", UserId, UserId, 0, 0, RemoteStatus(a),
                               IF a.result = "HTTPError" THEN "TLINK HTTP error"
                               ELSE "remote call failed")).entries
        /\ sync' = PassFailed([sync EXCEPT !.flag = NULL], a.result)
    /\ api' = [api EXCEPT ![PassThread].pc = "idle"]
    /\ UNCHANGED <<cache, lock, auth, fetches, settings>>
    /\ UNCHANGED <<devices, sensors, readings, now, tx, web, logfs, logVars, jobVars>>

\* line 107: the remote call returned the decoded answer
RemoteAnswered ==
    /\ api[PassThread].pc = "done" /\ api[PassThread].result = "json"
    /\ api' = [api EXCEPT ![PassThread].pc = "idle"]
    /\ UNCHANGED <<cache, lock, auth, fetches, settings>>
    /\ UNCHANGED <<devices, sensors, readings, now, tx, web, sync, log, logfs, logVars, jobVars>>

(***************************************************************************)
(* Log files (app/log_utils.py)                                            *)
(*                                                                         *)
(* A text is a sequence of symbols: one symbol for each separator          *)
(* character ("|", "=", " ", "\n", "[", "]", "{", "}", ","), one for each  *)
(* decimal digit, and one for each word of other characters.               *)
(***************************************************************************)
LogDevices == {1, 2}
Digits == <<"0", "1", "2", "3", "4", "5", "6", "7", "8", "9">>

\* str(n) of a non-negative int
RECURSIVE str(_)
str(n) ==
    IF n < 10 THEN <<Digits[n + 1]>>
    ELSE str(n \div 10) \o <<Digits[(n % 10) + 1]>>

\* int(text) raises ValueError unless IsNumber(text)
IsNumber(text) ==
    /\ text # << >>
    /\ \A i \in DOMAIN text : \E d \in 0..9 : Digits[d + 1] = text[i]
RECURSIVE int(_)
int(text) ==
    LET DigitValue(c) == CHOOSE d \in 0..9 : Digits[d + 1] = c
    IN  IF Len(text) = 1 THEN DigitValue(text[1])
        ELSE 10 * int(SubSeq(text, 1, Len(text) - 1)) + DigitValue(text[Len(text)])

\* text.strip(): the text between its first and its last symbol that is
\* not whitespace
strip(text) ==
    LET inked == {i \in DOMAIN text : text[i] \notin {" ", "\n", "\r"}}
    IN  IF inked = {} THEN << >> ELSE SubSeq(text, Min(inked), Max(inked))

\* text.find(c) + 1: the position of the first c, 0 when there is none
Find(text, c) ==
    IF \E i \in DOMAIN text : text[i] = c
    THEN Min({i \in DOMAIN text : text[i] = c})
    ELSE 0

\* text.split(sep)
RECURSIVE split(_, _)
split(text, sep) ==
    LET i == Find(text, sep)
    IN  IF i = 0 THEN <<text>>
        ELSE <<SubSeq(text, 1, i - 1)>> \o split(SubSeq(text, i + 1, Len(text)), sep)

\* str.lower() and str.upper() on the words that have letters
lower(text) ==
    LET LowerWord(c) ==
            CASE c \in {"SUCCESS", "Success"} -> "success"
              [] c \in {"ERROR", "Error"} -> "error"
              [] c = "NA" -> "na"
              [] OTHER -> c
    IN  [i \in DOMAIN text |-> LowerWord(text[i])]
upper(text) ==
    LET UpperWord(c) ==
            CASE c \in {"success", "Success"} -> "SUCCESS"
              [] c \in {"error", "Error"} -> "ERROR"
              [] c = "na" -> "NA"
              [] OTHER -> c
    IN  [i \in DOMAIN text |-> UpperWord(text[i])]

_sanitize_message(message) ==
    strip([i \in DOMAIN message |-> IF message[i] = "\n" THEN " " ELSE message[i]])

\* a sensor dict as handed to write_sync_log, and what the snapshot keeps
LogSensor(id, value, reVal, unit) ==
    [sensorsId |-> id, value |-> value, reVal |-> reVal, unit |-> unit]
_sensor_snapshot(entries) ==
    [i \in DOMAIN entries |->
        [sensorId |-> Or3(entries[i].sensorsId, NULL, NULL),
         value |-> entries[i].value,
         reVal |-> Or2(entries[i].reVal, NULL),
         unit |-> entries[i].unit]]

\* json.dumps(snapshot, separators=(",", ":")): numbers in decimal, None as
\* null, a string as its own characters; the quotes, the keys and the comma
\* between two objects are part of the bracket symbols
json_dumps(snapshot) ==
    LET json_number(v) == IF v = NULL THEN <<"null">> ELSE str(v)
        json_object(s) ==
            <<"{">> \o json_number(s.sensorId) \o <<",">> \o json_number(s.value)
                \o <<",">> \o json_number(s.reVal) \o <<",">> \o <<s.unit>>
                \o <<"}">>
        RECURSIVE json_objects(_)
        json_objects(list) ==
            IF list = << >> THEN << >>
            ELSE json_object(Head(list)) \o json_objects(Tail(list))
    IN  <<"[">> \o json_objects(snapshot) \o <<"]">>

\* json.loads(text): ok is FALSE where it raises JSONDecodeError
json_loads(text) ==
    LET IsJsonNumber(t) == t = <<"null">> \/ IsNumber(t)
        FromJsonNumber(t) == IF t = <<"null">> THEN NULL ELSE int(t)
        IsJsonObject(t) ==
            /\ t # << >>
            /\ t[1] = "{"
            /\ LET members == split(Tail(t), ",")
               IN  /\ Len(members) = 4
                   /\ \A i \in 1..3 : IsJsonNumber(members[i])
                   /\ Len(members[4]) = 1
        FromJsonObject(t) ==
            LET members == split(Tail(t), ",")
            IN  [sensorId |-> FromJsonNumber(members[1]),
                 value |-> FromJsonNumber(members[2]),
                 reVal |-> FromJsonNumber(members[3]),
                 unit |-> members[4][1]]
    IN
    IF Len(text) < 2 \/ text[1] # "[" \/ text[Len(text)] # "]"
    THEN [ok |-> FALSE, value |-> << >>]
    ELSE LET closed == split(SubSeq(text, 2, Len(text) - 1), "}")
             objects == SubSeq(closed, 1, Len(closed) - 1)
         IN  IF closed[Len(closed)] = << >>
                /\ \A i \in DOMAIN objects : IsJsonObject(objects[i])
             THEN [ok |-> TRUE,
                   value |-> [i \in DOMAIN objects |-> FromJsonObject(objects[i])]]
             ELSE [ok |-> FALSE, value |-> << >>]

\* the keyword arguments of one write_sync_log call
LogArgs(user_id, device_id, sensorList, readingCount, status, http_status, message) ==
    [user_id |-> user_id, device_id |-> device_id, sensors |-> sensorList,
     readings |-> readingCount, status |-> status, http_status |-> http_status,
     message |-> message]

\* datetime.utcnow().strftime("%Y-%m-%dT%H:%M:%SZ") at second t, and the
\* date in the file name, "%Y-%m-%d"
SecondsPerDay == 2
LogLine(t, args) ==
    LET LogStamp(sec) == str(sec) \o <<"Z">>
        LogField(name, text) == <<" ", "|", " ", name, "=">> \o text
        sensor_snapshot == _sensor_snapshot(args.sensors)
        http_value == IF args.http_status # NULL THEN str(args.http_status)
                      ELSE <<"NA">>
    IN  LogStamp(t)
            \o LogField("status", args.status)
            \o LogField("user", str(args.user_id))
            \o LogField("device", str(args.device_id))
            \o LogField("sensors", str(Len(sensor_snapshot)))
            \o LogField("readings", str(args.readings))
            \o LogField("http", http_value)
            \o LogField("sensors_json", json_dumps(sensor_snapshot))
            \o LogField("message", _sanitize_message(args.message))
            \o <<"\n">>

\* the directory tree after write_sync_log appended its line at second t
\* a device directory of the tree; << >>, no file, where it does not exist
FolderOf(tree, device_id) ==
    IF device_id \in DOMAIN tree THEN tree[device_id] ELSE << >>

write_sync_log_file(tree, t, args) ==
    LET folder == FolderOf(tree, args.device_id)
        date_str == t \div SecondsPerDay
        before == IF date_str \in DOMAIN folder THEN folder[date_str] ELSE << >>
    IN  [dir \in DOMAIN tree \cup {args.device_id} |->
            IF dir = args.device_id
            THEN [d \in DOMAIN folder \cup {date_str} |->
                    IF d = date_str THEN Append(before, LogLine(t, args))
                    ELSE folder[d]]
            ELSE tree[dir]]

\* a naive time text is its second; an aware one ("Z") is converted to the
\* naive local time of the same instant
_parse_timestamp(value) ==
    LET text == strip(value)
        normalized == IF text # << >> /\ text[Len(text)] = "Z"
                      THEN SubSeq(text, 1, Len(text) - 1)
                      ELSE text
    IN  IF IsNumber(normalized) THEN int(normalized) ELSE NULL

\* fields[key] after the loop over the tokens: the last token with that key
FieldsGet(tokens, key, default) ==
    LET HasEquals(token) == Find(token, "=") > 0
        TokenKey(token) == strip(SubSeq(token, 1, Find(token, "=") - 1))
        TokenValue(token) ==
            strip(SubSeq(token, Find(token, "=") + 1, Len(token)))
        hits == {i \in DOMAIN tokens :
                    HasEquals(tokens[i]) /\ TokenKey(tokens[i]) = <<key>>}
    IN  IF hits = {} THEN default ELSE TokenValue(tokens[Max(hits)])

\* _parse_log_line(line): << >> for None, else the entry in a 1-tuple
_parse_log_line(line) ==
    LET segments == split(line, "|")
        stripped == [i \in DOMAIN segments |-> strip(segments[i])]
        parts == SelectSeq(stripped, LAMBDA p : p # << >>)
    IN  IF parts = << >> THEN << >>
        ELSE
        LET timestamp == _parse_timestamp(parts[1])
            tokens == Tail(parts)
            user == FieldsGet(tokens, "user", <<"0">>)
            device == FieldsGet(tokens, "device", <<"0">>)
            decoded == json_loads(FieldsGet(tokens, "sensors_json", <<"[", "]">>))
            http_status == FieldsGet(tokens, "http", << >>)
        IN  IF timestamp = NULL \/ ~IsNumber(user) \/ ~IsNumber(device)
            THEN << >>
            ELSE <<[timestamp |-> timestamp,
                    status |-> FieldsGet(tokens, "status", <<"unknown">>),
                    user_id |-> int(user),
                    device_id |-> int(device),
                    sensors |-> IF decoded.ok THEN decoded.value ELSE << >>,
                    http_status |->
                        IF http_status # << >> /\ upper(http_status) # <<"NA">>
                           /\ IsNumber(http_status)
                        THEN int(http_status) ELSE NULL,
                    message |-> FieldsGet(tokens, "message", << >>)]>>

\* file_path.read_text(): the text of the file
RECURSIVE read_text(_)
read_text(file) ==
    IF file = << >> THEN << >> ELSE Head(file) \o read_text(Tail(file))

\* the characters at which str.splitlines() ends a line: "\n", and "\r" for
\* every other one ("\r", "\v", "\f", "\x1c", "\x85", "\u2028", ...)
LineBreaks == {"\n", "\r"}

\* text.splitlines(): "\r\n" ends one line, not two
RECURSIVE splitlines(_)
splitlines(text) ==
    LET ends == {i \in DOMAIN text : text[i] \in LineBreaks} IN
    IF text = << >> THEN << >>
    ELSE IF ends = {} THEN <<text>>
    ELSE LET i == Min(ends)
             next == IF /\ text[i] = "\r" /\ i < Len(text) /\ text[i + 1] = "\n"
                     THEN i + 2 ELSE i + 1
         IN  <<SubSeq(text, 1, i - 1)>> \o splitlines(SubSeq(text, next, Len(text)))

\* the lines of sorted(device_dir.glob(...), reverse=True), every file read
\* from its last line to its first
RECURSIVE ScanLines(_)
ScanLines(folder) ==
    IF DOMAIN folder = {} THEN << >>
    ELSE LET newest == Max(DOMAIN folder)
             reversed(seq) == [i \in DOMAIN seq |-> seq[Len(seq) + 1 - i]]
         IN  reversed(splitlines(read_text(folder[newest])))
                 \o ScanLines([d \in DOMAIN folder \ {newest} |-> folder[d]])

\* what the loop over the files and their lines reads: _parse_log_line of
\* every line, in scan order (<< >> where it returns None)
ReadEntries(folder) ==
    LET lines == ScanLines(folder)
    IN  [i \in DOMAIN lines |-> _parse_log_line(lines[i])]

_coerce_sensor_id(value) ==
    IF value = NULL THEN NULL
    ELSE LET text == strip(str(value))
         IN  IF IsNumber(text) THEN int(text) ELSE NULL

_sensor_matches(sensor, desired) ==
    _coerce_sensor_id(Or3(sensor.sensorId, NULL, NULL)) = desired

\* "if start_time and entry_time < start_time: continue", and the same
\* for end_time, passed
InWindowFromStart(entry_time, start_time, end_time) ==
    ~(start_time # NULL /\ entry_time < start_time)
InWindow(entry_time, start_time, end_time) ==
    /\ ~(start_time # NULL /\ entry_time < start_time)
    /\ ~(end_time # NULL /\ entry_time > end_time)

\* "if len(readings) >= per_sensor_limit: continue"
AtCapAfterOneMore(sensorReadings, per_sensor_limit) ==
    Len(sensorReadings) >= per_sensor_limit + 1
AtCap(sensorReadings, per_sensor_limit) == Len(sensorReadings) >= per_sensor_limit

\* the loop over entry["sensors"]
RECURSIVE AddReadings(_, _, _, _)
AddReadings(history, sensorList, entry_time, per_sensor_limit) ==
    IF sensorList = << >> THEN history
    ELSE
    LET sensor == Head(sensorList)
        sensor_id_int == _coerce_sensor_id(sensor.sensorId)
        sensorReadings == IF sensor_id_int \in DOMAIN history
                          THEN history[sensor_id_int] ELSE << >>
        after ==
            IF sensor_id_int = NULL \/ AtCap(sensorReadings, per_sensor_limit)
            THEN history
            ELSE [k \in DOMAIN history \cup {sensor_id_int} |->
                    IF k = sensor_id_int
                    THEN Append(sensorReadings,
                                [recordedAt |-> str(entry_time),
                                 rawValue |-> sensor.value,
                                 value |-> IF sensor.reVal # NULL
                                           THEN sensor.reVal ELSE sensor.value])
                    ELSE history[k]]
    IN  AddReadings(after, Tail(sensorList), entry_time, per_sensor_limit)

\* the loop over the lines read
RECURSIVE HistoryScan(_, _, _, _, _, _)
HistoryScan(history, scanned, device_id, per_sensor_limit, start_time, end_time) ==
    IF scanned = << >> THEN history
    ELSE
    LET parsed == Head(scanned)
        skip == HistoryScan(history, Tail(scanned), device_id, per_sensor_limit,
                            start_time, end_time)
    IN  IF parsed = << >> THEN skip
        ELSE IF parsed[1].device_id # device_id THEN skip
        ELSE IF ~InWindow(parsed[1].timestamp, start_time, end_time) THEN skip
        ELSE HistoryScan(AddReadings(history, parsed[1].sensors,
                                     parsed[1].timestamp, per_sensor_limit),
                         Tail(scanned), device_id, per_sensor_limit,
                         start_time, end_time)

\* history is a map: sensor id -> readings, << >> being the empty map
load_sensor_history_from_logs(scanned, device_id, per_sensor_limit, start_time, end_time) ==
    IF per_sensor_limit <= 0 THEN << >>
    ELSE HistoryScan(<< >>, scanned, device_id, per_sensor_limit,
                     start_time, end_time)

\* the keyword arguments of one query_sync_logs call; status << >> is None
LogQuery(user_id, device_id, sensor_id, start_time, end_time, status, page, page_size) ==
    [user_id |-> user_id, device_id |-> device_id, sensor_id |-> sensor_id,
     start_time |-> start_time, end_time |-> end_time, status |-> status,
     page |-> page, page_size |-> page_size]

\* offset = max(0, (page - 1) * page_size)
PageOffsetOverlapping(page, page_size) == Max({0, (page - 1) * page_size - 1})
PageOffset(page, page_size) == Max({0, (page - 1) * page_size})

\* the loop over the lines read; it returns at the first match beyond a
\* full page
RECURSIVE QueryScan(_, _, _, _)
QueryScan(scanned, q, matched, entries) ==
    IF scanned = << >> THEN [entries |-> entries, has_more |-> FALSE]
    ELSE
    LET parsed == Head(scanned)
        entry == parsed[1]
        skip == QueryScan(Tail(scanned), q, matched, entries)
        normalized_status == lower(q.status)
        filtered == SelectSeq(entry.sensors,
                              LAMBDA s : _sensor_matches(s, q.sensor_id))
    IN  IF parsed = << >> THEN skip
        ELSE IF entry.device_id # q.device_id \/ entry.user_id # q.user_id THEN skip
        ELSE IF ~InWindow(entry.timestamp, q.start_time, q.end_time) THEN skip
        ELSE IF q.status # << >> /\ lower(entry.status) # normalized_status THEN skip
        ELSE IF q.sensor_id # NULL /\ filtered = << >> THEN skip
        ELSE IF matched + 1 <= PageOffset(q.page, q.page_size)
             THEN QueryScan(Tail(scanned), q, matched + 1, entries)
        ELSE IF Len(entries) < q.page_size
             THEN QueryScan(Tail(scanned), q, matched + 1,
                            Append(entries,
                                   IF q.sensor_id # NULL
                                   THEN [entry EXCEPT !.sensors = filtered]
                                   ELSE entry))
        ELSE [entries |-> entries, has_more |-> TRUE]

query_sync_logs(scanned, q) == QueryScan(scanned, q, 0, << >>)

\* no read of the log files is returning
NoReply == [op |-> "none", args |-> << >>, result |-> << >>]

\* one write_sync_log call, at the current second
LogWrite(inputs, max) ==
    /\ reply = NoReply
    /\ Len(written) < max
    /\ \E args \in inputs :
        LET t == now \div TicksPerSec
        IN  /\ files' = write_sync_log_file(files, t, args)
            /\ written' = Append(written,
                                 [time |-> t, args |-> args,
                                  entry |-> _parse_log_line(LogLine(t, args))])
    /\ UNCHANGED <<devices, sensors, readings, now, tx, web, sync, log, authVars,
                   logfs, reply, pending, jobVars>>

\* the processes and threads that call write_sync_log
Writers == {"p1", "p2"}

\* a writer outside write_sync_log
NotWriting ==
    [rest |-> << >>, device_id |-> 0, date_str |-> 0, call |-> 0, pieces |-> 0]

\* the file after text reached its end: the text joins the last line
\* unless that line is closed by its newline
append_text(tree, device_id, date_str, text) ==
    LET folder == FolderOf(tree, device_id)
        before == IF date_str \in DOMAIN folder THEN folder[date_str] ELSE << >>
        open == before # << >> /\ before[Len(before)][Len(before[Len(before)])] # "\n"
        after == IF open
                 THEN [before EXCEPT ![Len(before)] = @ \o text]
                 ELSE Append(before, text)
    IN  [dir \in DOMAIN tree \cup {device_id} |->
            IF dir = device_id
            THEN [d \in DOMAIN folder \cup {date_str} |->
                    IF d = date_str THEN after ELSE folder[d]]
            ELSE tree[dir]]

\* the sizes of the part of text that one write of the operating system
\* may take, after done writes of the line: all of it, or less
PieceSizes(text, done) ==
    {Len(text)} \cup {n \in {Len(text) \div 2} : n > 0 /\ done + 1 < MaxPieces}

\* log_utils.py lines 63-78: write_sync_log builds its line and opens the
\* file for appending; no lock is taken
AppendOpen(w, inputs, max) ==
    /\ reply = NoReply
    /\ pending[w] = NotWriting
    /\ Len(written) < max
    /\ \E args \in inputs :
        LET t == now \div TicksPerSec
        IN  /\ pending' = [pending EXCEPT ![w] =
                              [rest |-> LogLine(t, args),
                               device_id |-> args.device_id,
                               date_str |-> t \div SecondsPerDay,
                               call |-> Len(written) + 1, pieces |-> 0]]
            /\ written' = Append(written,
                                 [time |-> t, args |-> args,
                                  entry |-> _parse_log_line(LogLine(t, args))])
    /\ UNCHANGED <<devices, sensors, readings, now, tx, web, sync, log, authVars,
                   logfs, files, reply, jobVars>>

\* line 79 and the close of the file: handle.write(line) hands the line to
\* the operating system, which appends it in one write or in several
AppendPiece(w) ==
    /\ pending[w] # NotWriting
    /\ \E n \in PieceSizes(pending[w].rest, pending[w].pieces) :
        LET rest == pending[w].rest IN
        /\ files' = append_text(files, pending[w].device_id, pending[w].date_str,
                                SubSeq(rest, 1, n))
        /\ pending' = [pending EXCEPT ![w] =
                          IF n = Len(rest) THEN NotWriting
                          ELSE [@ EXCEPT !.rest = SubSeq(rest, n + 1, Len(rest)),
                                         !.pieces = @ + 1]]
    /\ UNCHANGED <<devices, sensors, readings, now, tx, web, sync, log, authVars,
                   logfs, written, reply, jobVars>>

\* the caller of a read takes what it returned
ReadReturn ==
    /\ reply # NoReply
    /\ reply' = NoReply
    /\ UNCHANGED <<devices, sensors, readings, now, tx, web, sync, log, authVars,
                   logfs, files, written, pending, jobVars>>

\* where the k-th write_sync_log call put its line: folder, file, line number
PlaceOf(k) ==
    LET device_id == written[k].args.device_id
        date_str == written[k].time \div SecondsPerDay
    IN  <<device_id, date_str,
          Cardinality({j \in 1..k :
                        /\ written[j].args.device_id = device_id
                        /\ written[j].time \div SecondsPerDay = date_str})>>

\* _parse_log_line on the line one of the calls wrote
ParseLine ==
    /\ reply = NoReply
    /\ \E k \in DOMAIN written :
            reply' = [op |-> "parse", args |-> k,
                      result |-> _parse_log_line(
                                    files[PlaceOf(k)[1]][PlaceOf(k)[2]][PlaceOf(k)[3]])]
    /\ UNCHANGED <<devices, sensors, readings, now, tx, web, sync, log, authVars,
                   logfs, files, written, pending, jobVars>>

\* one load_sensor_history_from_logs call
LoadHistory(devs, limits, windows) ==
    /\ reply = NoReply
    /\ \E device_id \in devs :
       \E scanned \in {ReadEntries(FolderOf(files, device_id))} :
           \E per_sensor_limit \in limits, window \in windows :
            reply' = [op |-> "history",
                      args |-> [device_id |-> device_id,
                                per_sensor_limit |-> per_sensor_limit,
                                start_time |-> window[1],
                                end_time |-> window[2]],
                      result |-> load_sensor_history_from_logs(
                                    scanned, device_id, per_sensor_limit,
                                    window[1], window[2])]
    /\ UNCHANGED <<devices, sensors, readings, now, tx, web, sync, log, authVars,
                   logfs, files, written, pending, jobVars>>

\* one query_sync_logs call
QueryLogs(queries) ==
    /\ reply = NoReply
    /\ \E device_id \in LogDevices :
       \E scanned \in {ReadEntries(FolderOf(files, device_id))} :
           \E q \in queries :
            /\ q.device_id = device_id
            /\ reply' = [op |-> "query", args |-> q,
                         result |-> query_sync_logs(scanned, q)]
    /\ UNCHANGED <<devices, sensors, readings, now, tx, web, sync, log, authVars,
                   logfs, files, written, pending, jobVars>>

(***************************************************************************)
(* Log retention (app/log_utils.py, prune_sync_logs)                       *)
(***************************************************************************)
Sweepers == {"p", "q"}

\* stat().st_mtime of a log file: the second of its last append
MTime(lines) ==
    LET line == lines[Len(lines)]
    IN  int(SubSeq(line, 1, Find(line, "Z") - 1))

\* "if mtime < cutoff"
ExpiredAtCutoff(mtime, cutoff) == mtime <= cutoff
Expired(mtime, cutoff) == mtime < cutoff

Exists(tree, dir, file) == dir \in DOMAIN tree /\ file \in DOMAIN tree[dir]

\* the tree without one file (unlink) and without one directory (rmdir)
Unlinked(tree, dir, file) ==
    [tree EXCEPT ![dir] = [d \in DOMAIN tree[dir] \ {file} |-> tree[dir][d]]]
Rmdired(tree, dir) == [d \in DOMAIN tree \ {dir} |-> tree[d]]

IdleSweep ==
    [pc |-> "idle", max_age_days |-> 0, cutoff |-> 0, dirs |-> {}, dir |-> NULL,
     entries |-> {}, file |-> NULL, removed |-> 0, result |-> NULL,
     before |-> << >>]

\* prune_sync_logs(max_age_days) up to the listing of the base directory;
\* "before" keeps the tree as the call found it
PruneCall(s, ages) ==
    /\ sweep[s].pc = "idle"
    /\ \E max_age_days \in ages :
        sweep' = [sweep EXCEPT ![s] =
            IF max_age_days <= 0
            THEN [IdleSweep EXCEPT !.pc = "done", !.max_age_days = max_age_days,
                                   !.result = 0, !.before = files]
            ELSE [IdleSweep EXCEPT
                    !.pc = "dirs", !.max_age_days = max_age_days,
                    !.cutoff = (now \div TicksPerSec) - max_age_days * SecondsPerDay,
                    !.dirs = DOMAIN files, !.before = files]]
    /\ UNCHANGED <<devices, sensors, readings, now, tx, web, sync, log, authVars,
                   logfs, logVars, callVars>>

\* the next device_dir of the listing and its is_dir() check; after the last
\* one the call returns the count
PruneIsDir(s) ==
    /\ sweep[s].pc = "dirs"
    /\ IF sweep[s].dirs = {}
       THEN sweep' = [sweep EXCEPT ![s].pc = "done", ![s].result = sweep[s].removed]
       ELSE \E dir \in sweep[s].dirs :
                sweep' = [sweep EXCEPT
                    ![s].dirs = @ \ {dir},
                    ![s].dir = dir,
                    ![s].pc = IF dir \in DOMAIN files THEN "list" ELSE "dirs"]
    /\ UNCHANGED <<devices, sensors, readings, now, tx, web, sync, log, authVars,
                   logfs, logVars, callVars>>

\* device_dir.iterdir() of the inner for statement, outside any try: it
\* raises FileNotFoundError when the directory is gone
PruneListDir(s) ==
    /\ sweep[s].pc = "list"
    /\ sweep' = [sweep EXCEPT ![s] =
            IF sweep[s].dir \in DOMAIN files
            THEN [@ EXCEPT !.pc = "stat", !.entries = DOMAIN files[sweep[s].dir]]
            ELSE [@ EXCEPT !.pc = "failed", !.result = NULL]]
    /\ UNCHANGED <<devices, sensors, readings, now, tx, web, sync, log, authVars,
                   logfs, logVars, callVars>>

\* the next log_file of the listing: stat() and the comparison with cutoff
PruneStat(s) ==
    /\ sweep[s].pc = "stat"
    /\ IF sweep[s].entries = {}
       THEN sweep' = [sweep EXCEPT ![s].pc = "empty"]
       ELSE \E file \in sweep[s].entries :
                sweep' = [sweep EXCEPT
                    ![s].entries = @ \ {file},
                    ![s].file = file,
                    ![s].pc = IF /\ Exists(files, sweep[s].dir, file)
                                 /\ Expired(MTime(files[sweep[s].dir][file]),
                                            sweep[s].cutoff)
                              THEN "unlink" ELSE "stat"]
    /\ UNCHANGED <<devices, sensors, readings, now, tx, web, sync, log, authVars,
                   logfs, logVars, callVars>>

\* the sweep pruning the reading history along with the log file
PruneUnlinkWithHistory(s) ==
    /\ sweep[s].pc = "unlink"
    /\ files' = IF Exists(files, sweep[s].dir, sweep[s].file)
                THEN Unlinked(files, sweep[s].dir, sweep[s].file) ELSE files
    /\ readings' = NoRows
    /\ sweep' = [sweep EXCEPT ![s].pc = "stat", ![s].removed = @ + 1]
    /\ UNCHANGED <<devices, sensors, now, tx, web, sync, log, authVars,
                   logfs, written, reply, pending, callVars>>

\* log_file.unlink(); FileNotFoundError is skipped without counting
PruneUnlink(s) ==
    /\ sweep[s].pc = "unlink"
    /\ IF Exists(files, sweep[s].dir, sweep[s].file)
       THEN /\ files' = Unlinked(files, sweep[s].dir, sweep[s].file)
            /\ sweep' = [sweep EXCEPT ![s].pc = "stat", ![s].removed = @ + 1]
       ELSE /\ files' = files
            /\ sweep' = [sweep EXCEPT ![s].pc = "stat"]
    /\ UNCHANGED <<devices, sensors, readings, now, tx, web, sync, log, authVars,
                   logfs, written, reply, pending, callVars>>

\* "if not any(device_dir.iterdir())", inside the try
PruneIsEmpty(s) ==
    /\ sweep[s].pc = "empty"
    /\ sweep' = [sweep EXCEPT ![s].pc =
            IF sweep[s].dir \in DOMAIN files /\ DOMAIN files[sweep[s].dir] = {}
            THEN "rmdir" ELSE "dirs"]
    /\ UNCHANGED <<devices, sensors, readings, now, tx, web, sync, log, authVars,
                   logfs, logVars, callVars>>

\* device_dir.rmdir(); FileNotFoundError and OSError (not empty) are skipped
PruneRmdir(s) ==
    /\ sweep[s].pc = "rmdir"
    /\ files' = IF sweep[s].dir \in DOMAIN files /\ DOMAIN files[sweep[s].dir] = {}
                THEN Rmdired(files, sweep[s].dir) ELSE files
    /\ sweep' = [sweep EXCEPT ![s].pc = "dirs"]
    /\ UNCHANGED <<devices, sensors, readings, now, tx, web, sync, log, authVars,
                   logfs, written, reply, pending, callVars>>

\* the retention task takes the count, or the exception, of its call
PruneReturn(s) ==
    /\ sweep[s].pc \in {"done", "failed"}
    /\ sweep' = [sweep EXCEPT ![s] = IdleSweep]
    /\ UNCHANGED <<devices, sensors, readings, now, tx, web, sync, log, authVars,
                   logfs, logVars, callVars>>

\* a day passes
TickDay ==
    /\ now \div (TicksPerSec * SecondsPerDay) < MaxDays
    /\ now' = now + TicksPerSec * SecondsPerDay
    /\ UNCHANGED <<devices, sensors, readings, tx, web, sync, log, authVars, logfs,
                   logVars, jobVars>>

(***************************************************************************)
(* Webhook signature: utils.verify_signature and routes.ingest_push.       *)
(* A request is its raw body and its X-TLink-Signature header.  The raw    *)
(* body is the index of its JSON document in the list of bodies, 0 being   *)
(* the body "{}"; headers.get() is << >> for an absent header and <<text>> *)
(* for a header that was sent.                                             *)
(***************************************************************************)
NoSecret == << >>
Secrets == {NoSecret, <<"key">>}

\* request.get_json(silent=True)
get_json(bodies, raw) == IF raw = 0 THEN BasePayload ELSE bodies[raw]

\* hmac.new(secret, payload, sha256).hexdigest(): a text of hex digits that
\* is another one for every key and every body
hexdigest(secret, payload) == secret \o str(payload)

\* incoming_signature.split("=", maxsplit=1)[-1].strip()
Provided(text) ==
    LET i == Find(text, "=")
    IN  strip(IF i = 0 THEN text ELSE SubSeq(text, i + 1, Len(text)))

\* hmac.compare_digest(str, str) raises TypeError on a non-ASCII character
NonAscii(text) == \E i \in DOMAIN text : text[i] = "e-acute"

\* utils.py lines 7-19: "valid", "invalid", or the exception raised
verify_signature(secret, payload, incoming_signature) ==
    IF secret = << >> THEN "valid"
    ELSE IF incoming_signature = << >> \/ incoming_signature[1] = << >>
    THEN "invalid"
    ELSE IF NonAscii(Provided(incoming_signature[1])) THEN "TypeError"
    ELSE IF hexdigest(secret, payload) = Provided(incoming_signature[1])
    THEN "valid"
    ELSE "invalid"

\* X-TLink-Signature headers a sender can put on the body raw: none, the
\* digest bare and prefixed, the digest of another body or under no key,
\* and other texts around the digest
HookSignatures(secret, raw) ==
    LET digest == hexdigest(secret, raw)
        other == hexdigest(secret, raw + 1)
    IN  { << >>, << << >> >>, <<digest>>, <<other>>, <<str(raw)>>,
          << <<"sha256", "=">> \o digest >>, << <<"sha256", "=">> \o other >>,
          << <<"sha256", "=">> >>,
          << <<"md5", "=">> \o digest >>,
          << <<"sha256", "=", " ">> \o digest \o <<"\n">> >>,
          << <<"sha256", "=", "sha256", "=">> \o digest >>,
          << <<"sha256", "=", "e-acute">> >> }

NoHook ==
    [secret |-> NoSecret, raw |-> 0, signature |-> << >>, verdict |-> "none",
     before |-> <<NoRows, NoRows, NoRows>>]

\* routes.py lines 35-49: the body is parsed, the signature verified, and
\* process_push_payload entered; 400 for an empty body and 401 for a bad
\* signature are answered at once
IngestPush(max, bodies) ==
    /\ tx["web"].pc = "idle"
    /\ web.calls < max
    /\ \E raw \in 0..Len(bodies), shared_secret \in Secrets :
       \E incoming \in HookSignatures(shared_secret, raw) :
        LET payload == get_json(bodies, raw)
            verdict == IF payload = BasePayload THEN "none"
                       ELSE verify_signature(shared_secret, raw, incoming)
        IN  /\ hook' = [secret |-> shared_secret, raw |-> raw,
                        signature |-> incoming, verdict |-> verdict,
                        before |-> <<devices, sensors, readings>>]
            /\ tx' = IF verdict = "valid"
                     THEN [tx EXCEPT !["web"] = BeginPush(payload)]
                     ELSE tx
            /\ web' = [web EXCEPT
                    !.calls = @ + 1,
                    !.response =
                        CASE verdict = "none" -> [status |-> 400, storedReadings |-> 0]
                          [] verdict = "invalid" -> [status |-> 401, storedReadings |-> 0]
                          [] verdict = "TypeError" -> [status |-> 500, storedReadings |-> 0]
                          [] OTHER -> NoResponse]
    /\ UNCHANGED <<devices, sensors, readings, now, sync, log, authVars, logfs,
                   logVars, sweep, alias, task, export>>

(***************************************************************************)
(* Field aliasing: what a record is resolved to when it is normalised.     *)
(***************************************************************************)
NoAlias == [op |-> "none", record |-> << >>, result |-> << >>]

\* _payload_from_remote_device applied to a record of the remote API
NormalizeRemote(records) ==
    /\ \E device \in records :
        alias' = [op |-> "remote", record |-> device,
                  result |-> payload_from_remote_device(device, UserId, FlagOk)]
    /\ UNCHANGED <<devices, sensors, readings, now, tx, web, sync, log, authVars,
                   logfs, logVars, sweep, hook, task, export>>

\* lines 38-72 of process_push_payload: the arguments of upsert_device and
\* of the upsert_sensor of every entry that has a sensorsId
ResolvePush(payloads) ==
    /\ \E payload \in payloads :
        LET kept == SelectSeq(payload.sensorsDates, LAMBDA e : e.sensorsId # NULL)
        IN  alias' = [op |-> "push", record |-> payload,
                      result |-> [device |-> DeviceArgs(payload, NULL),
                                  sensors |-> [i \in DOMAIN kept |->
                                                 SensorArgs(kept[i], 1, NULL)]]]
    /\ UNCHANGED <<devices, sensors, readings, now, tx, web, sync, log, authVars,
                   logfs, logVars, sweep, hook, task, export>>

\* _sensor_snapshot applied to the entries of a log call
SnapshotSensors(lists) ==
    /\ \E entries \in lists :
        alias' = [op |-> "snapshot", record |-> entries,
                  result |-> _sensor_snapshot(entries)]
    /\ UNCHANGED <<devices, sensors, readings, now, tx, web, sync, log, authVars,
                   logfs, logVars, sweep, hook, task, export>>

(***************************************************************************)
(* atg_export._row_to_atg_entry: the "connect" of an export entry          *)
(***************************************************************************)
NoExport == [last_push_time |-> NULL, ttl |-> 0, clock |-> 0, connect |-> TRUE]

\* lines 152-161: is_connected of a row whose device has that
\* last_push_time, at tick clock, ATG_EXPORT_CONNECT_TTL_SECONDS being ttl.
\* Line 161 reads "True if ttl <= 0 else delta.total_seconds() <= ttl or
\* True".
is_connected(last_push_time, clock, ttl) ==
    LET last_push == coerce_datetime(last_push_time) IN
    IF last_push = NULL THEN TRUE
    ELSE LET delta == clock - last_push IN
         IF ttl <= 0 THEN TRUE ELSE (delta <= ttl * TicksPerSec \/ TRUE)

\* _row_to_atg_entry builds the entry of a row
RowToEntry(times, ttls) ==
    /\ \E last_push_time \in times, ttl \in ttls :
        export' = [last_push_time |-> last_push_time, ttl |-> ttl, clock |-> now,
                   connect |-> is_connected(last_push_time, now, ttl)]
    /\ UNCHANGED <<devices, sensors, readings, now, tx, web, sync, log, authVars,
                   logfs, logVars, sweep, hook, alias, task>>

(***************************************************************************)
(* task.decorators.task: the wrapper around a scheduled function.  Each    *)
(* of the function and the callbacks returns or raises.                    *)
(***************************************************************************)
Callbacks == {"on_success", "on_failed", "on_complete"}

\* the threads a threaded task starts, one for each call of its wrapper
Workers == {"w1", "w2", "w3"}

\* lines 104-114: the decorated function as decoration leaves it, and the
\* locals of the call of its wrapper.  is_enable and is_running are the
\* attributes of the function itself, which the worker reads; functools.wraps
\* copies the function's attributes to the wrapper, the object the
\* decorator returns: wrapper_is_enable is that copy of is_enable
NewTask ==
    [pc |-> "idle", is_enable |-> TRUE, is_running |-> FALSE,
     wrapper_is_enable |-> TRUE,
     given |-> {}, raised |-> FALSE, called |-> << >>, runs |-> 0,
     workers |-> [w \in Workers |-> "idle"]]

\* lines 108-114: the function is decorated with @task(..., disabled=True)
TaskDisabled ==
    /\ task = NewTask
    /\ task' = [NewTask EXCEPT !.is_enable = FALSE, !.wrapper_is_enable = FALSE]
    /\ UNCHANGED <<devices, sensors, readings, now, tx, web, sync, log, authVars,
                   logfs, logVars, sweep, hook, alias, export>>

\* helpers.py lines 96-97 and 116-117: func.is_enable = value, func being
\* the decorated task, that is the wrapper
SetIsEnable(t, value) == [t EXCEPT !.wrapper_is_enable = value]

\* helpers.enable_task(t) and helpers.disable_task(t) on the decorated task
enable_task ==
    /\ task' = SetIsEnable(task, TRUE)
    /\ UNCHANGED <<devices, sensors, readings, now, tx, web, sync, log, authVars,
                   logfs, logVars, sweep, hook, alias, export>>

disable_task ==
    /\ task' = SetIsEnable(task, FALSE)
    /\ UNCHANGED <<devices, sensors, readings, now, tx, web, sync, log, authVars,
                   logfs, logVars, sweep, hook, alias, export>>

\* line 117: both flags allow the function to run
MayRun(t) == t.is_enable /\ ~t.is_running

\* lines 114-119 and 127-128: the wrapper is called; the function is run if
\* it is enabled and not running, otherwise None is returned at once.
\* given: the callbacks the decorator was handed; runs counts the
\* executions begun, the calls that are skipped go on for ever
TaskCall(max) ==
    /\ task.pc = "idle"
    /\ MayRun(task) => task.runs < max
    /\ \E given \in SUBSET Callbacks :
        task' = IF MayRun(task)
                THEN [task EXCEPT !.pc = "func", !.is_running = TRUE,
                                  !.given = given, !.raised = FALSE,
                                  !.called = << >>, !.runs = @ + 1]
                ELSE [task EXCEPT !.pc = "skipped", !.given = given,
                                  !.raised = FALSE, !.called = << >>]
    /\ UNCHANGED <<devices, sensors, readings, now, tx, web, sync, log, authVars,
                   logfs, logVars, sweep, hook, alias, export>>

\* line 121: func(*args, **kwargs) returns or raises
TaskFunc ==
    /\ task.pc = "func"
    /\ \E raises \in BOOLEAN :
        task' = [task EXCEPT !.raised = raises,
                             !.pc = IF raises THEN "except" ELSE "on_success"]
    /\ UNCHANGED <<devices, sensors, readings, now, tx, web, sync, log, authVars,
                   logfs, logVars, sweep, hook, alias, export>>

\* line 122, inside the try: if on_success: on_success()
TaskOnSuccess ==
    /\ task.pc = "on_success"
    /\ IF "on_success" \in task.given
       THEN \E raises \in BOOLEAN :
            task' = [task EXCEPT !.called = Append(@, "on_success"),
                                 !.pc = IF raises THEN "except" ELSE "on_complete"]
       ELSE task' = [task EXCEPT !.pc = "on_complete"]
    /\ UNCHANGED <<devices, sensors, readings, now, tx, web, sync, log, authVars,
                   logfs, logVars, sweep, hook, alias, export>>

\* lines 123-124, the bare except: if on_failed: on_failed(); an exception
\* of on_failed leaves the wrapper
TaskOnFailed ==
    /\ task.pc = "except"
    /\ IF "on_failed" \in task.given
       THEN \E raises \in BOOLEAN :
            task' = [task EXCEPT !.called = Append(@, "on_failed"),
                                 !.pc = IF raises THEN "raised" ELSE "on_complete"]
       ELSE task' = [task EXCEPT !.pc = "on_complete"]
    /\ UNCHANGED <<devices, sensors, readings, now, tx, web, sync, log, authVars,
                   logfs, logVars, sweep, hook, alias, export>>

\* lines 125-128: if on_complete: on_complete(); is_running = False
TaskOnComplete ==
    /\ task.pc = "on_complete"
    /\ IF "on_complete" \in task.given
       THEN \E raises \in BOOLEAN :
            task' = IF raises
                    THEN [task EXCEPT !.called = Append(@, "on_complete"),
                                      !.pc = "raised"]
                    ELSE [task EXCEPT !.called = Append(@, "on_complete"),
                                      !.pc = "returned", !.is_running = FALSE]
       ELSE task' = [task EXCEPT !.pc = "returned", !.is_running = FALSE]
    /\ UNCHANGED <<devices, sensors, readings, now, tx, web, sync, log, authVars,
                   logfs, logVars, sweep, hook, alias, export>>

\* the call of the wrapper is over: it returned, or an exception left it
TaskReturn ==
    /\ task.pc \in {"returned", "raised", "skipped"}
    /\ task' = [task EXCEPT !.pc = "idle"]
    /\ UNCHANGED <<devices, sensors, readings, now, tx, web, sync, log, authVars,
                   logfs, logVars, sweep, hook, alias, export>>

\* lines 133-135 of a task decorated with threaded=True, as the tasks of
\* app/tasks.py are: the scheduler calls the wrapper, which starts a thread
\* for worker and returns
WorkerStart(w, max) ==
    /\ task.workers[w] = "idle"
    /\ task.runs < max
    /\ task' = [task EXCEPT !.workers[w] = "check", !.runs = @ + 1]
    /\ UNCHANGED <<devices, sensors, readings, now, tx, web, sync, log, authVars,
                   logfs, logVars, sweep, hook, alias, export>>

\* line 117 in the thread: if func.is_enable and not func.is_running;
\* lines 129-130: otherwise the thread ends
WorkerCheck(w) ==
    /\ task.workers[w] = "check"
    /\ task' = [task EXCEPT !.workers[w] = IF MayRun(task) THEN "set" ELSE "idle"]
    /\ UNCHANGED <<devices, sensors, readings, now, tx, web, sync, log, authVars,
                   logfs, logVars, sweep, hook, alias, export>>

\* lines 118-119: func.is_running = True
WorkerSet(w) ==
    /\ task.workers[w] = "set"
    /\ task' = [task EXCEPT !.workers[w] = "func", !.is_running = TRUE]
    /\ UNCHANGED <<devices, sensors, readings, now, tx, web, sync, log, authVars,
                   logfs, logVars, sweep, hook, alias, export>>

\* lines 120-126: the function returns or raises; the bare except catches
\* what it raises, and the tasks of app/tasks.py are given no callback
WorkerFunc(w) ==
    /\ task.workers[w] = "func"
    /\ task' = [task EXCEPT !.workers[w] = "clear"]
    /\ UNCHANGED <<devices, sensors, readings, now, tx, web, sync, log, authVars,
                   logfs, logVars, sweep, hook, alias, export>>

\* lines 127-128: func.is_running = False, and the thread ends
WorkerClear(w) ==
    /\ task.workers[w] = "clear"
    /\ task' = [task EXCEPT !.workers[w] = "idle", !.is_running = FALSE]
    /\ UNCHANGED <<devices, sensors, readings, now, tx, web, sync, log, authVars,
                   logfs, logVars, sweep, hook, alias, export>>

\* the log directory stops accepting writes (disk full, permissions)
LogStoreFails ==
    /\ logfs = "ok"
    /\ logfs' = "failing"
    /\ UNCHANGED <<devices, sensors, readings, now, tx, web, sync, log, authVars,
                   logVars, jobVars>>

\* time passes
Tick ==
    /\ now < MaxClock
    /\ now' = now + 1
    /\ UNCHANGED <<devices, sensors, readings, tx, web, sync, log, authVars, logfs, logVars, jobVars>>

\* a whole second passes
TickSecond ==
    /\ now + TicksPerSec <= MaxClock
    /\ now' = now + TicksPerSec
    /\ UNCHANGED <<devices, sensors, readings, tx, web, sync, log, authVars, logfs, logVars, jobVars>>

InitClient ==
    /\ cache = NewClient
    /\ lock = NoOwner
    /\ api = [t \in ApiThreads |-> IdleApi]
    /\ auth = [t \in ApiThreads |-> IdleAuth]
    /\ fetches = 0

InitStore ==
    /\ devices = NoRows
    /\ sensors = NoRows
    /\ readings = NoRows
    /\ now = TicksPerSec
    /\ tx = [t \in Threads |-> IdleTx]
    /\ web = [calls |-> 0, response |-> NoResponse, prev |-> BasePayload]
    /\ sync = [pc |-> "idle", remaining |-> 0, account |-> 0, received |-> 0,
               total_devices |-> 0, total_readings |-> 0,
               summary |-> ZeroSummary, outcome |-> "none", exports |-> 0,
               exc |-> "none", flag |-> NULL]
    /\ log = << >>
    /\ logfs = "ok"
    /\ files = << >>
    /\ sweep = [s \in Sweepers |-> IdleSweep]
    /\ hook = NoHook
    /\ alias = NoAlias
    /\ task = NewTask
    /\ export = NoExport
    /\ written = << >>
    /\ reply = NoReply
    /\ pending = [w \in Writers |-> NotWriting]

\* the application as configured for syncing
Init == InitStore /\ InitClient /\ settings = AllSet

\* the application with each OAuth setting present or, as by default, empty
InitAuth == InitStore /\ InitClient /\ settings \in [OAuthSettings -> {0, 1}]

\* bodies of the pushes that race with a sync pass
RacePayloads ==
    { Payload(1, UserId, NULL, NULL, <<Entry(1, 1, SensorTime, NULL)>>),
      Payload(1, UserId, TimeStr(FmtIsoT, 1), 1, <<Entry(1, 2, SensorTime, 1)>>) }

\* records of the remote answers of the passes that race with pushes
RaceDevices ==
    { RemoteDevice(1, TimeStr(FmtDash, 2), 2,
                   <<RemoteSensor(1, 2, TimeStr(FmtDash, 2), 2),
                     RemoteSensor(NULL, 1, NULL, NULL)>>),
      RemoteDevice(2, TimeStr(FmtDash, 1), 2,
                   <<RemoteSensor(1, 2, TimeStr(FmtDash, 1), 2)>>) }

\* webhook pushes and sync passes whose remote call succeeded, running
\* concurrently, the clock standing still
Next ==
    \/ WebRequest(MaxRacePushes, RacePayloads)
    \/ WebRespond
    \/ SyncStart(0..PageSize)
    \/ SyncDevice(RaceDevices)
    \/ SyncAfterPush
    \/ SyncFinish
    \/ \E t \in Threads : PushUpsertDevice(t)
    \/ \E t \in Threads : PushEntry(t)
    \/ \E t \in Threads : PushCommit(t)
    \/ \E t \in Threads : PushFail(t)

Spec == Init /\ [][Next]_vars

\* webhook pushes alone, one request at a time
NextWeb ==
    \/ WebRequest(MaxWebCalls, WebPayloads)
    \/ WebRespond
    \/ PushUpsertDevice("web")
    \/ PushEntry("web")
    \/ PushCommit("web")
    \/ PushFail("web")
    \/ Tick

SpecWeb == Init /\ [][NextWeb]_vars

\* sync passes alone; every remote record carries its own time, so the
\* clock plays no part and stands still
NextSync ==
    \/ SyncApiHttpError
    \/ SyncApiError
    \/ SyncBadFlag
    \/ SyncStart(0..(PageSize + 1))
    \/ SyncDevice(RemoteDevices)
    \/ SyncAfterPush
    \/ SyncFinish
    \/ PushUpsertDevice("sync")
    \/ PushEntry("sync")
    \/ PushCommit("sync")
    \/ PushFail("sync")
    \/ LogStoreFails

SpecSync == Init /\ [][NextSync]_vars

\* remote API calls alone, under any configuration of the OAuth settings
NextAuth ==
    \/ \E t \in ApiThreads : ApiCall(t)
    \/ \E t \in ApiThreads : EnsureCached(t)
    \/ \E t \in ApiThreads : EnsureMissingSettings(t)
    \/ \E t \in ApiThreads : EnsureFetch(t)
    \/ \E t \in ApiThreads : FetchOk(t)
    \/ \E t \in ApiThreads : FetchFail(t)
    \/ \E t \in ApiThreads : ApiRequest(t)
    \/ \E t \in ApiThreads : ApiResponse(t)
    \/ \E t \in ApiThreads : Invalidate(t)
    \/ TickSecond

SpecAuth == InitAuth /\ [][NextAuth]_vars

\* message texts handed to write_sync_log
LogMessages ==
    { << >>, <<"ok">>, <<"no", " ", "sensors">>, <<"code", "=", "5">>,
      <<" ", "ok", " ">>, <<"line", "\n", "next", "\n">>,
      <<"a", "|", "b">>, <<"x", " ", "|", " ", "user", "=", "9">> }

\* sensor lists handed to write_sync_log
LogSensorLists ==
    { << >>,
      <<LogSensor(1, 5, NULL, "C")>>,
      <<LogSensor(12, 5, 7, "%"), LogSensor(0, 0, 0, "C")>>,
      <<LogSensor(1, 5, 7, "|")>> }

\* write_sync_log calls of every shape
LineInputs ==
    { LogArgs(12, 1, sensorList, 1, status, http_status, message) :
        sensorList \in LogSensorLists, status \in {<<"success">>, <<"error">>},
        http_status \in {NULL, 200}, message \in LogMessages }

\* lines being written and parsed back
NextLogLine ==
    \/ LogWrite(LineInputs, MaxLineRuns)
    \/ ParseLine
    \/ ReadReturn
    \/ TickSecond

SpecLogLine == Init /\ [][NextLogLine]_vars

\* write_sync_log calls as the sync pass makes them for device 1, the last
\* of them with a message that reads back as a line of device 2
LogCalls ==
    << LogArgs(1, 1, <<LogSensor(1, 5, NULL, "C")>>, 1, <<"success">>, NULL, <<"ok">>),
      LogArgs(1, 1, <<LogSensor(1, 6, 7, "C"), LogSensor(2, 8, NULL, "%")>>, 2,
              <<"error">>, 500, <<"StorageError">>),
      LogArgs(2, 1, <<LogSensor(2, 9, NULL, "%")>>, 1, <<"success">>, NULL, <<"ok">>),
      LogArgs(1, 1, << >>, 0, <<"error">>, NULL, <<"No", " ", "sensors">>),
      LogArgs(1, 1, <<LogSensor(1, 4, NULL, "C")>>, 1, <<"success">>, NULL,
              <<"moved", " ", "|", " ", "device", "=", "2">>) >>

\* <<start_time, end_time>> arguments: None or a second each
LogWindows == {<<NULL, NULL>>, <<2, NULL>>, <<NULL, 1>>, <<1, 1>>}

\* the log being written and the sensor history being read from it
NextLogHistory ==
    \/ LogWrite({LogCalls[i] : i \in {1, 2, 4, 5}}, MaxLines)
    \/ LoadHistory({1}, 0..2, LogWindows)
    \/ ReadReturn
    \/ TickSecond

SpecLogHistory == Init /\ [][NextLogHistory]_vars

\* query_sync_logs calls that page through the entries of user 1
PageQueries ==
    { LogQuery(1, 1, sensor_id, NULL, NULL, << >>, page, page_size) :
        sensor_id \in {NULL, 1}, page \in 1..3, page_size \in 1..2 }

\* the log being written and paged through
NextLogPage ==
    \/ LogWrite({LogCalls[i] : i \in {1, 2, 3}}, MaxLines)
    \/ QueryLogs(PageQueries)
    \/ ReadReturn
    \/ TickSecond

SpecLogPage == Init /\ [][NextLogPage]_vars

\* query_sync_logs calls with every filter left out or given
FilterQueries ==
    { LogQuery(user_id, 1, sensor_id, window[1], window[2], status, page, 1) :
        user_id \in {1, 2}, sensor_id \in {NULL, 2},
        window \in {<<NULL, NULL>>, <<1, 1>>},
        status \in {<< >>, <<"Error">>}, page \in 1..2 }

\* the log being written and queried with filters
NextLogFilter ==
    \/ LogWrite({LogCalls[i] : i \in {1, 2, 3, 5}}, MaxLines)
    \/ QueryLogs(FilterQueries)
    \/ ReadReturn
    \/ TickSecond

SpecLogFilter == Init /\ [][NextLogFilter]_vars

\* write_sync_log calls for two devices
SweptCalls == {LogCalls[1], [LogCalls[1] EXCEPT !.device_id = 2]}
Sweeping == \E s \in Sweepers : sweep[s].pc # "idle"

\* one sweeper; files are written and days pass between its sweeps
NextPrune ==
    \/ ~Sweeping /\ LogWrite(SweptCalls, MaxLines)
    \/ ~Sweeping /\ TickDay
    \/ PruneCall("p", 0..2)
    \/ PruneIsDir("p")
    \/ PruneListDir("p")
    \/ PruneStat("p")
    \/ PruneUnlink("p")
    \/ PruneIsEmpty("p")
    \/ PruneRmdir("p")
    \/ PruneReturn("p")

SpecPrune == Init /\ [][NextPrune]_vars

\* two sweepers and the log writer, running concurrently
NextPruneRace ==
    \/ LogWrite(SweptCalls, MaxLineRuns)
    \/ TickDay
    \/ \E s \in Sweepers : PruneCall(s, {1})
    \/ \E s \in Sweepers : PruneIsDir(s)
    \/ \E s \in Sweepers : PruneListDir(s)
    \/ \E s \in Sweepers : PruneStat(s)
    \/ \E s \in Sweepers : PruneUnlink(s)
    \/ \E s \in Sweepers : PruneIsEmpty(s)
    \/ \E s \in Sweepers : PruneRmdir(s)
    \/ \E s \in Sweepers : PruneReturn(s)

SpecPruneRace == Init /\ [][NextPruneRace]_vars


\* webhook bodies: one that is stored, one of a second device, one that
\* fails validation
HookBodies ==
    << Payload(1, UserId, NULL, NULL, <<Entry(1, 1, SensorTime, NULL)>>),
       Payload(2, UserId, NULL, 1, <<Entry(1, 2, SensorTime, 1)>>),
       Payload(1, UserId, NULL, NULL, << >>) >>

\* signed and unsigned webhook pushes, one request at a time
NextHook ==
    \/ IngestPush(MaxWebCalls, HookBodies)
    \/ WebRespond
    \/ PushUpsertDevice("web")
    \/ PushEntry("web")
    \/ PushCommit("web")
    \/ PushFail("web")

SpecHook == Init /\ [][NextHook]_vars


\* values of an aliased key: absent or null, empty (0, "", false), set
AliasValues == {NULL, 0, 1}

\* remote sensors and devices with their aliased keys null, empty or set
AliasSensors ==
    { [BaseRemoteSensor EXCEPT !.sensorsId = sid, !.sensorId = 2,
                               !.send_value = v, !.value = 5,
                               !.updateDate = 0,
                               !.heartbeatDate = TimeStr(FmtDash, 1)] :
        sid \in AliasValues, v \in AliasValues }

AliasDevices ==
    { [BaseRemoteDevice EXCEPT !.id = dev, !.deviceId = 2, !.userId = usr,
                               !.deviceName = d, !.device_name = 3,
                               !.groupId = d, !.group_id = 3,
                               !.sensorsList = list] :
        dev \in AliasValues, usr \in {NULL, 0, UserId}, d \in AliasValues,
        list \in {<< >>} \cup {<<sensor>> : sensor \in AliasSensors} }

\* webhook bodies with their aliased keys null, empty or set
AliasPayloads ==
    { [Payload(1, UserId, NULL, NULL,
               <<[Entry(1, v, SensorTime, NULL) EXCEPT !.reVal = 4,
                                                      !.sensorName = d,
                                                      !.sensor_name = 3]>>)
         EXCEPT !.deviceName = d, !.device_name = 3,
                !.deviceNo = d, !.device_no = e, !.rawData = 5] :
        v \in AliasValues, d \in AliasValues, e \in AliasValues }

\* records being normalised
NextAlias ==
    \/ NormalizeRemote(AliasDevices)
    \/ ResolvePush(AliasPayloads)
    \/ SnapshotSensors(LogSensorLists)

SpecAlias == Init /\ [][NextAlias]_vars


\* sync passes as the scheduler starts them, with or without an account
\* configured
NextPass ==
    \/ SyncSkipped
    \/ SyncApiHttpError
    \/ SyncApiError
    \/ SyncBadFlag
    \/ SyncStart(0..PageSize)
    \/ SyncDevice(RemoteDevices)
    \/ SyncAfterPush
    \/ SyncFinish
    \/ PushUpsertDevice("sync")
    \/ PushEntry("sync")
    \/ PushCommit("sync")
    \/ PushFail("sync")

SpecPass == Init /\ [][NextPass]_vars


\* the record of device 1 a pass of the pipeline receives: its reading has
\* the sensor and the time of the pushed one, and another value
PipelineDevices ==
    { RemoteDevice(1, TimeStr(FmtDash, 1), 2,
                   <<RemoteSensor(1, 3, TimeStr(FmtDash, 1), 2)>>) }

\* no push, no pass and no sweep is under way
Quiet ==
    /\ \A t \in Threads : tx[t].pc = "idle"
    /\ sync.pc = "idle"
    /\ ~Sweeping

\* the whole pipeline: webhook pushes and sync passes that store the same
\* readings again, the sync log being written, and the retention sweep.
\* The sweep and the log share no variable with the pushes and passes, so
\* every interleaving of them equals one in which the sweep, the log writes
\* and the days fall between two transactions; only these are explored.
NextPipeline ==
    \/ (~Sweeping /\ WebRequest(MaxRacePushes, {p \in RacePayloads : p.time # NULL}))
    \/ WebRespond
    \/ (~Sweeping /\ SyncStart({1}))
    \/ SyncDevice(PipelineDevices)
    \/ SyncAfterPush
    \/ SyncFinish
    \/ \E t \in Threads : PushUpsertDevice(t)
    \/ \E t \in Threads : PushEntry(t)
    \/ \E t \in Threads : PushCommit(t)
    \/ \E t \in Threads : PushFail(t)
    \/ (Quiet /\ LogWrite({LogCalls[1]}, MaxLineRuns))
    \/ (Quiet /\ TickDay)
    \/ (Quiet /\ PruneCall("p", {1}))
    \/ PruneIsDir("p")
    \/ PruneListDir("p")
    \/ PruneStat("p")
    \/ PruneUnlink("p")
    \/ PruneIsEmpty("p")
    \/ PruneRmdir("p")
    \/ PruneReturn("p")

SpecPipeline == Init /\ [][NextPipeline]_vars


\* a decorated function being called by the scheduler
NextTask ==
    \/ TaskCall(MaxRuns)
    \/ TaskFunc
    \/ TaskOnSuccess
    \/ TaskOnFailed
    \/ TaskOnComplete
    \/ TaskReturn

SpecTask == Init /\ [][NextTask]_vars


\* a decorated function being called by the scheduler while it is switched
\* off and on
NextSwitch ==
    \/ TaskDisabled
    \/ enable_task
    \/ disable_task
    \/ TaskCall(MaxRuns)
    \/ TaskFunc
    \/ TaskOnSuccess
    \/ TaskOnFailed
    \/ TaskOnComplete
    \/ TaskReturn

SpecSwitch == Init /\ [][NextSwitch]_vars

\* last_push_time of the rows exported: none, a time in each format
\* coerce_datetime parses, and one it does not parse
ExportTimes ==
    {NULL, TimeStr(FmtIsoZ, 1)}
        \cup {TimeStr(fmt, sec) : fmt \in {FmtDash, FmtSlash, FmtIsoT}, sec \in 0..2}

\* ATG_EXPORT_CONNECT_TTL_SECONDS as configured
ExportTtls == {-1, 0, 1, 2}

\* rows being exported as time passes
NextExport ==
    \/ RowToEntry(ExportTimes, ExportTtls)
    \/ Tick

SpecExport == Init /\ [][NextExport]_vars

\* write_sync_log calls whose message holds line-breaking characters
BreakInputs ==
    { LogArgs(1, 1, <<LogSensor(1, 5, NULL, "C")>>, 1, <<"error">>, NULL, message) :
        message \in { <<"ok">>, <<"line", "\n", "next">>,
                      <<"\r", "ok", "\r", "\n">>, <<"line", "\r", "next">>,
                      <<"line", "\r", "\n", "next">> } }

\* such lines being written and the sensor history being read from them
NextLogBreaks ==
    \/ LogWrite(BreakInputs, MaxLines)
    \/ LoadHistory({1}, {0}, {<<NULL, NULL>>})
    \/ ReadReturn
    \/ TickSecond

SpecLogBreaks == Init /\ [][NextLogBreaks]_vars

\* two writers of the same device-day file
NextAppend ==
    \/ \E w \in Writers : AppendOpen(w, {LogCalls[1], LogCalls[4]}, MaxLineRuns + 1)
    \/ \E w \in Writers : AppendPiece(w)
    \/ TickSecond

SpecAppend == Init /\ [][NextAppend]_vars

\* the scheduler loop of run_all_tasks calls run_pending() every second for
\* as long as the tasks run, and a call of the wrapper that has begun goes
\* on: no step of the task waits for ever
SpecTaskLive == Init /\ [][NextTask]_vars /\ WF_vars(NextTask)

\* a threaded task whose schedule comes due while earlier threads of it
\* are still alive
NextWorkers ==
    \/ \E w \in Workers : WorkerStart(w, MaxTicks)
    \/ \E w \in Workers : WorkerCheck(w)
    \/ \E w \in Workers : WorkerSet(w)
    \/ \E w \in Workers : WorkerFunc(w)
    \/ \E w \in Workers : WorkerClear(w)

SpecWorkers == Init /\ [][NextWorkers]_vars

\* the remote call of a sync pass, step by step, up to what
\* sync_user_devices does with its outcome
NextRemote ==
    \/ RemoteCall
    \/ EnsureCached(PassThread)
    \/ EnsureMissingSettings(PassThread)
    \/ EnsureFetch(PassThread)
    \/ FetchOk(PassThread)
    \/ FetchFail(PassThread)
    \/ ApiRequest(PassThread)
    \/ ApiResponse(PassThread)
    \/ ApiNetworkError(PassThread)
    \/ Invalidate(PassThread)
    \/ RemoteRaised
    \/ RemoteAnswered
    \/ LogStoreFails
    \/ TickSecond

SpecRemote == InitAuth /\ [][NextRemote]_vars

(***************************************************************************)
(* Properties of the upsert store and the two ingestion paths              *)
(***************************************************************************)
\* the external identity of the device a sensor row belongs to
DeviceOf(devs, srow) ==
    IF srow.device_id \in DOMAIN devs THEN devs[srow.device_id].external_id ELSE NULL

NoDuplicateIdentity(devs, sens) ==
    /\ \A i, j \in DOMAIN devs :
        i # j => devs[i].external_id # devs[j].external_id
    /\ \A i, j \in DOMAIN sens :
        i # j => ~(/\ DeviceOf(devs, sens[i]) = DeviceOf(devs, sens[j])
                   /\ sens[i].external_id = sens[j].external_id)

\* C1: whatever pushes and sync passes have run and however their
\* transactions interleave, the store (and the view of every open
\* transaction) holds at most one device row per device externalId and at
\* most one sensor row per (device, sensor externalId).
C1_NoDuplicateIdentity ==
    /\ NoDuplicateIdentity(devices, sensors)
    /\ \A t \in Threads : NoDuplicateIdentity(DevView(t), SenView(t))

\* both paths have stored device 1, the pass has also stored device 2
C1_Witness ==
    /\ web.response.status = 200
    /\ \E k \in DOMAIN log : log[k].status = "success" /\ log[k].device = 1
    /\ \E k \in DOMAIN log : log[k].status = "success" /\ log[k].device = 2
    /\ Cardinality(DOMAIN devices) = 2
    /\ Cardinality(DOMAIN sensors) = 2

\* the sensor row of (device externalId, sensor externalId), NULL if none
SensorIdOf(devExt, senExt) ==
    LET hit == {id \in DOMAIN sensors :
                  /\ DeviceOf(devices, sensors[id]) = devExt
                  /\ sensors[id].external_id = senExt}
    IN IF hit = {} THEN NULL ELSE Min(hit)

ReadingsAt(sensor_id, recorded_at) ==
    {id \in DOMAIN readings :
        /\ readings[id].sensor_id = sensor_id
        /\ readings[id].recorded_at = recorded_at}

\* C2: a call stores one reading row for every (sensor, recordedAt) it
\* carries that the store does not hold yet, so calls with distinct
\* recordedAt leave two rows; a (sensor, recordedAt) already stored is left
\* as the single row it was, and the duplicate raises no error.
C2_ReadingPerRecordTime ==
    /\ \A i, j \in DOMAIN readings :
        i # j => ~(/\ readings[i].sensor_id = readings[j].sensor_id
                   /\ readings[i].recorded_at = readings[j].recorded_at)
    /\ \A t \in Threads :
        /\ tx[t].exc # "IntegrityError"
        /\ tx[t].pc = "returned" =>
            /\ tx[t].inserted = tx[t].fresh
            /\ \A k \in DOMAIN tx[t].payload.sensorsDates :
                LET entry == tx[t].payload.sensorsDates[k]
                IN entry.sensorsId # NULL =>
                     Cardinality(ReadingsAt(
                        SensorIdOf(tx[t].payload.deviceId, entry.sensorsId),
                        tx[t].push_time_str)) = 1

\* a successful push is replayed with the same record time: nothing is
\* inserted and the call returns normally
C2_Witness ==
    /\ tx["web"].pc = "returned"
    /\ tx["web"].payload = web.prev
    /\ tx["web"].payload.time # NULL
    /\ tx["web"].processed >= 1
    /\ tx["web"].inserted = 0

\* C3: when an identical webhook body whose sensors carry their own
\* timestamps is sent a second time, the second call inserts no reading row.
C3_ReplayInsertsNothing ==
    (/\ tx["web"].pc = "returned"
     /\ tx["web"].payload = web.prev
     /\ \A k \in DOMAIN web.prev.sensorsDates :
            web.prev.sensorsDates[k].times # NULL)
    => tx["web"].inserted = 0

\* C4: the count a call returns is the number of reading rows it inserted.
C4_StoredCountIsInserted ==
    \A t \in Threads :
        tx[t].pc = "returned" => tx[t].processed = tx[t].inserted

\* C5: an upsert of an existing device or sensor row leaves every column
\* whose incoming value is null as stored and sets every other column to the
\* incoming value; no committed non-null column ever becomes null.
C5_CoalesceMerge ==
    [][\A t \in Threads :
        /\ (tx[t].pc = "device" /\ tx'[t].pc \in {"sensor", "commit"}) =>
            LET incoming == DeviceArgs(tx[t].payload, tx[t].push_time_str)
                id == tx'[t].device_id
            IN id \in DOMAIN DevView(t) =>
                 \A c \in DeviceCols :
                    tx'[t].wdev[id][c] =
                        IF incoming[c] = NULL THEN DevView(t)[id][c]
                        ELSE incoming[c]
        /\ (tx[t].pc = "sensor" /\ tx'[t].processed = tx[t].processed + 1) =>
            LET entry == tx[t].payload.sensorsDates[tx[t].i + 1]
                incoming == SensorArgs(entry, tx[t].device_id, tx[t].push_time_str)
                id == tx'[t].sensor_id
            IN id \in DOMAIN SenView(t) =>
                 \A c \in SensorCols :
                    tx'[t].wsen[id][c] =
                        IF incoming[c] = NULL THEN SenView(t)[id][c]
                        ELSE incoming[c]
        /\ \A id \in DOMAIN devices : \A c \in DeviceCols :
            devices[id][c] # NULL => devices'[id][c] # NULL
        /\ \A id \in DOMAIN sensors : \A c \in SensorCols :
            sensors[id][c] # NULL => sensors'[id][c] # NULL
      ]_vars

\* a stored device has a non-null name, the upsert in progress carried a
\* null name and another, non-null, push time
C5_Witness ==
    \E t \in Threads :
        /\ tx[t].pc \in {"sensor", "commit"}
        /\ tx[t].device_id \in DOMAIN devices
        /\ devices[tx[t].device_id].device_name # NULL
        /\ tx[t].payload.deviceName = NULL
        /\ tx[t].wdev[tx[t].device_id].device_name
             = devices[tx[t].device_id].device_name
        /\ tx[t].wdev[tx[t].device_id].last_push_time
             # devices[tx[t].device_id].last_push_time

\* process_push_payload run alone, from validation to commit, on the store db
FreshId(tbl) == 1 + Max({0} \cup DOMAIN tbl)

RECURSIVE PushEntries(_, _, _, _, _)
PushEntries(db, payload, device_id, push_time_str, i) ==
    IF i > Len(payload.sensorsDates) THEN db
    ELSE LET entry == payload.sensorsDates[i]
             s == upsert_sensor(db.sensors, FreshId(db.sensors),
                                SensorArgs(entry, device_id, push_time_str))
             r == insert_reading(db.readings, FreshId(db.readings),
                                 ReadingArgs(entry, payload, s.id, push_time_str))
         IN IF entry.sensorsId = NULL
            THEN PushEntries(db, payload, device_id, push_time_str, i + 1)
            ELSE PushEntries([db EXCEPT !.sensors = s.tbl, !.readings = r.tbl],
                             payload, device_id, push_time_str, i + 1)

process_push_payload(db, payload, clock) ==
    IF PayloadInvalid(payload) THEN db
    ELSE LET push_time_str == PushTimeStr(payload, clock)
             d == upsert_device(db.devices, FreshId(db.devices),
                                DeviceArgs(payload, push_time_str))
         IN PushEntries([db EXCEPT !.devices = d.tbl], payload, d.id,
                        push_time_str, 1)

Store == [devices |-> devices, sensors |-> sensors, readings |-> readings]
EmptyStore == [devices |-> NoRows, sensors |-> NoRows, readings |-> NoRows]

\* the stored state up to the surrogate row ids: rows named by external identity
SensorIdentity(db, sensor_id) ==
    IF sensor_id \in DOMAIN db.sensors
    THEN <<DeviceOf(db.devices, db.sensors[sensor_id]),
           db.sensors[sensor_id].external_id>>
    ELSE <<NULL, NULL>>

Identity(db) ==
    [devices  |-> {db.devices[id] : id \in DOMAIN db.devices},
     sensors  |-> {[row  |-> [db.sensors[id] EXCEPT !.device_id = NULL],
                    name |-> SensorIdentity(db, id)] : id \in DOMAIN db.sensors},
     readings |-> {[row  |-> [db.readings[id] EXCEPT !.sensor_id = NULL],
                    name |-> SensorIdentity(db, db.readings[id].sensor_id)] :
                        id \in DOMAIN db.readings}]

\* C6: two ingestion calls for the same device leave the same stored
\* devices, sensors and readings whichever of them commits first.  Taken for
\* two pushes that carry their own record time, the second just committed:
\* the store equals the one the opposite order produces.
C6_CommitOrderIrrelevant ==
    (/\ web.calls = 2
     /\ tx["web"].pc = "returned"
     /\ web.prev # BasePayload
     /\ coerce_datetime(web.prev.time) # NULL
     /\ coerce_datetime(tx["web"].payload.time) # NULL
     /\ web.prev.deviceId = tx["web"].payload.deviceId)
    => Identity(Store)
         = Identity(process_push_payload(
                        process_push_payload(EmptyStore, tx["web"].payload, now),
                        web.prev, now))

\* C7: the store changes only by the commit of a whole batch (device, its
\* sensors, its readings together); a batch that fails leaves the store as
\* it was, rows committed earlier included, and nothing of it pending.
C7_AllOrNothing ==
    [][/\ (<<devices, sensors, readings>>' # <<devices, sensors, readings>>) =>
            \E t \in Threads :
                /\ tx[t].pc = "commit" /\ tx'[t].pc = "returned"
                /\ devices' = DevView(t)
                /\ sensors' = SenView(t)
                /\ readings' = ReadView(t)
       /\ \A t \in Threads :
            (tx[t].pc # "raised" /\ tx'[t].pc = "raised") =>
                /\ UNCHANGED <<devices, sensors, readings>>
                /\ tx'[t].wdev = NoRows
                /\ tx'[t].wsen = NoRows
                /\ tx'[t].wread = NoRows
      ]_vars

\* a sync pass stored one device, then the batch of its next device failed
\* after the device upsert: the pass is aborted, the first device is stored
C7_Witness ==
    /\ sync.outcome = "failed"
    /\ sync.total_devices = 1
    /\ Len(log) = 2
    /\ log[1].status = "success"
    /\ log[2].status = "error" /\ log[2].message = "StorageError"
    /\ log[1].device # log[2].device
    /\ Cardinality(DOMAIN devices) = 1
    /\ \A id \in DOMAIN devices : devices[id].external_id = log[1].device


(***************************************************************************)
(* Properties of the token cache and the remote API call                   *)
(***************************************************************************)
\* the token lookups of t and u ran concurrently, and both began with no
\* token cached or the cached one within the refresh buffer of its expiry
BothLookedUp(t, u) ==
    /\ t # u
    /\ auth[t].done /\ auth[u].done
    /\ u \in auth[t].overlap
    /\ auth[t].stale0 /\ auth[u].stale0

\* one token request between the two lookups, and both return its token
SingleFetch(t, u) ==
    /\ auth[t].sent + auth[u].sent = 1
    /\ auth[t].token # NULL
    /\ auth[t].token = auth[u].token

TokenHeld(w, v) ==
    /\ auth[w].sent = 1
    /\ auth[v].sent = 1 => auth[w].fetch_no < auth[v].fetch_no
    /\ auth[w].token # NULL
    /\ now < auth[w].expires_at - RefreshBuffer * TicksPerSec
    /\ ~auth[w].invalidated /\ ~auth[v].invalidated

C9_FetchIffStale ==
    \A t \in ApiThreads :
        auth[t].checked =>
            /\ auth[t].sent = 1 <=> auth[t].staleAtCheck
            /\ auth[t].done /\ ~auth[t].staleAtCheck
                   => auth[t].token = auth[t].cachedAtCheck

\* C9 amended: with every required OAuth setting present, a token lookup
\* sends a token request if and only if no token is cached or the current
\* time is within the refresh buffer of the expiry, and otherwise returns
\* the cached token without a request; with a required setting missing it
\* sends no request and the lookup fails.
C9_FetchIffStaleAndConfigured ==
    \A t \in ApiThreads :
        auth[t].checked =>
            /\ auth[t].sent = 1 <=> (auth[t].staleAtCheck /\ configured)
            /\ auth[t].done /\ ~auth[t].staleAtCheck
                   => /\ auth[t].token = auth[t].cachedAtCheck
                      /\ auth[t].token # NULL
            /\ auth[t].done /\ auth[t].staleAtCheck /\ ~configured
                   => /\ auth[t].token = NULL
                      /\ api[t].result = "ValueError"

\* one lookup was served from the cache that another lookup's request filled
C9_Witness ==
    \E t, u \in ApiThreads :
        /\ auth[t].done /\ auth[t].checked /\ ~auth[t].staleAtCheck
        /\ auth[t].sent = 0 /\ auth[t].token = auth[u].token
        /\ auth[u].done /\ auth[u].staleAtCheck /\ auth[u].sent = 1

Last(seq) == seq[Len(seq)]

\* C10: _invoke_tlink_sensor_api sends at most two requests and invalidates
\* the token at most once per call; a 401 answer to the first request is
\* followed by exactly one invalidation and one retry, whose request carries
\* a token fetched after the invalidation; a 401 answer to the retry, or
\* any other error on either attempt, ends the call with an error.
C10_RetryOnceOn401 ==
    \A t \in ApiThreads :
        LET a == api[t]
            first401 == Len(a.statuses) >= 1 /\ a.statuses[1] = "unauthorized" IN
        /\ Len(a.headers) <= 2
        /\ a.invalidations <= 1
        /\ a.invalidations = 1 <=> (first401 /\ a.pc # "invalidate")
        /\ Len(a.headers) = 2 =>
              /\ first401
              /\ a.invalidations = 1
              /\ a.headers[2][2] > a.inv_mark
        /\ a.pc = "done" =>
              /\ a.result \in {"json", "ValueError", "HTTPError"}
              /\ a.result = "json" <=>
                    (a.statuses # << >> /\ Last(a.statuses) = "ok")
              /\ first401 => a.attempt = 1
              /\ \/ Len(a.statuses) = MaxAttempts /\ Last(a.statuses) = "unauthorized"
                 \/ a.statuses # << >> /\ Last(a.statuses) = "http_error"
                 => a.result = "HTTPError"
              /\ Len(a.statuses) = Len(a.headers)

\* a call whose first request was answered 401 and whose retry succeeded
C10_Witness ==
    \E t \in ApiThreads :
        /\ api[t].pc = "done"
        /\ api[t].statuses = <<"unauthorized", "ok">>
        /\ api[t].result = "json"
        /\ api[t].invalidations = 1

\* C11: a token fetch that fails hands an error to the caller and leaves the
\* cache without an access token, whatever it held before.
C11_FailedFetchEmptiesCache ==
    [][\A t \in ApiThreads :
          (api[t].pc = "fetching" /\ api'[t].pc = "done")
              => /\ api'[t].result \in {"HTTPError", "ValueError"}
                 /\ cache'.access_token = NULL]_vars

\* C12: a token refresh with a required setting missing raises an error
\* that names every missing setting, sends no token request and leaves the
\* cached token, type and expiry as they were; a token request is sent only
\* with every required setting present.
C12_MissingSettingsFailFast ==
    [][\A t \in ApiThreads :
          /\ (api[t].pc = "ensure" /\ api'[t].pc = "done")
                => /\ api'[t].result = "ValueError"
                   /\ api'[t].named = {name \in OAuthSettings : settings[name] <= 0}
                   /\ api'[t].named # {}
                   /\ fetches' = fetches
                   /\ cache' = cache
          /\ (api[t].pc = "ensure" /\ api'[t].pc = "fetching")
                => \A name \in OAuthSettings : settings[name] > 0]_vars

\* a refresh failed naming two or more missing settings
C12_Witness ==
    \E t \in ApiThreads :
        /\ api[t].pc = "done"
        /\ api[t].result = "ValueError"
        /\ Cardinality(api[t].named) >= 2
        /\ fetches = 0


(***************************************************************************)
(* Properties of the sync pass and of the sync log                         *)
(***************************************************************************)
\* C13: a pass that completes has fetched every device record of the
\* account, also when the account has more devices than one page holds.
C13_PagesToCompletion ==
    sync.outcome = "completed" => sync.received = sync.account

\* the step handles one device record of the running pass to its end
EndsRecord == sync.pc = "loop" /\ Len(log') = Len(log) + 1

\* the record was rejected before storing, or storing it raised ValueError
ValidationFailure ==
    \/ tx["sync"].pc = "idle"
    \/ tx["sync"].pc = "raised" /\ tx["sync"].exc = "ValueError"

\* storing the record raised another error
OtherFailure == tx["sync"].pc = "raised" /\ tx["sync"].exc # "ValueError"

\* C14: in a sync pass, a record that fails validation gets an error entry
\* and the pass goes on with the next record; a record whose storing fails
\* otherwise gets an error entry and the pass ends there; a record stored
\* gets a success entry carrying the stored count and adds to the counters.
C14_PerDeviceOutcome ==
    [][(EndsRecord /\ logfs = "ok") =>
          LET e == log'[Len(log')] IN
          /\ ValidationFailure =>
                /\ e.status = "error" /\ e.written
                /\ sync'.pc = "loop" /\ sync'.outcome = "running"
                /\ sync'.remaining = sync.remaining - 1
                /\ sync'.total_devices = sync.total_devices
                /\ sync'.total_readings = sync.total_readings
          /\ OtherFailure =>
                /\ e.status = "error" /\ e.written
                /\ sync'.pc = "idle" /\ sync'.outcome = "failed"
                /\ sync'.remaining = 0
          /\ tx["sync"].pc = "returned" =>
                /\ e.status = "success" /\ e.written
                /\ e.readings = tx["sync"].processed
                /\ sync'.pc = "loop" /\ sync'.outcome = "running"
                /\ sync'.remaining = sync.remaining - 1
                /\ sync'.total_devices = sync.total_devices + 1
                /\ sync'.total_readings = sync.total_readings + tx["sync"].processed
      ]_vars

\* a pass that rejected one record, went on, and was ended by the storage
\* failure of the next
C14_Witness ==
    /\ sync.outcome = "failed"
    /\ Len(log) = 2
    /\ log[1].status = "error" /\ log[1].message = "No sensors in payload"
    /\ log[1].written
    /\ log[2].status = "error" /\ log[2].message = "StorageError"
    /\ log[2].written

\* C15: the log store holds exactly one entry per webhook push handled by
\* the push endpoint (and one per device record handled by a sync pass).
C15_OneEntryPerPush ==
    (tx["web"].pc = "idle" /\ sync.outcome = "none" /\ logfs = "ok")
        => Len(LogLines) = web.calls

\* C16: when the write of a record's log entry fails, the step behaves as
\* with the entry written: the pass fails only if storing the record did,
\* a stored record adds to the counters, a rejected one is skipped, and the
\* committed rows stay as they are.
C16_LogFailureIsHarmless ==
    [][(EndsRecord /\ ~log'[Len(log')].written) =>
          /\ <<devices, sensors, readings>>' = <<devices, sensors, readings>>
          /\ sync'.outcome = "failed" <=> OtherFailure
          /\ ~OtherFailure =>
                /\ sync'.pc = "loop"
                /\ sync'.remaining = sync.remaining - 1
          /\ tx["sync"].pc = "returned" =>
                /\ sync'.total_devices = sync.total_devices + 1
                /\ sync'.total_readings = sync.total_readings + tx["sync"].processed
          /\ ValidationFailure =>
                /\ sync'.total_devices = sync.total_devices
                /\ sync'.total_readings = sync.total_readings
      ]_vars

\* a pass completed and counted a stored device whose log entry was lost
C16_Witness ==
    /\ sync.outcome = "completed"
    /\ sync.summary.devices >= 1
    /\ \E i \in DOMAIN log : ~log[i].written /\ log[i].status = "success"
    /\ devices # NoRows

\* what a written line stands for: the entry its write_sync_log call logged
LoggedEntry(w) ==
    [timestamp |-> w.time,
     status |-> w.args.status,
     user_id |-> w.args.user_id,
     device_id |-> w.args.device_id,
     sensors |-> _sensor_snapshot(w.args.sensors),
     http_status |-> w.args.http_status,
     message |-> _sanitize_message(w.args.message)]

\* C17: a line written by write_sync_log is parsed back by _parse_log_line
\* into the entry that was logged: same timestamp, status, user id, device
\* id, sensor snapshot list, http status and (sanitized) message.
C17_RoundTrip ==
    reply.op = "parse" =>
        reply.result = <<LoggedEntry(written[reply.args])>>

\* the entries of a device's log folder, the latest written first
RECURSIVE FolderEntries(_, _)
FolderEntries(device_id, n) ==
    IF n = 0 THEN << >>
    ELSE (IF written[n].args.device_id = device_id
          THEN written[n].entry ELSE << >>)
            \o FolderEntries(device_id, n - 1)

Within(entry, start_time, end_time) ==
    /\ start_time = NULL \/ entry.timestamp >= start_time
    /\ end_time = NULL \/ entry.timestamp <= end_time

\* the readings of one sensor in a list of entries, in the list's order
RECURSIVE ReadingsOf(_, _)
ReadingsOf(entries, sensor_id) ==
    IF entries = << >> THEN << >>
    ELSE LET e == Head(entries)
             own == SelectSeq(e.sensors, LAMBDA x : x.sensorId = sensor_id)
         IN  [i \in DOMAIN own |->
                [recordedAt |-> str(e.timestamp),
                 rawValue |-> own[i].value,
                 value |-> IF own[i].reVal # NULL THEN own[i].reVal
                           ELSE own[i].value]]
                \o ReadingsOf(Tail(entries), sensor_id)

\* the device's entries inside the window of the latest history call
HistoryEntries ==
    SelectSeq(FolderEntries(reply.args.device_id, Len(written)),
              LAMBDA e : /\ e.device_id = reply.args.device_id
                         /\ Within(e, reply.args.start_time, reply.args.end_time))
SensorsIn(entries) ==
    UNION {{entries[i].sensors[k].sensorId : k \in DOMAIN entries[i].sensors} :
           i \in DOMAIN entries} \ {NULL}

\* C18: load_sensor_history_from_logs returns, for each sensor of the
\* device's entries inside [start, end], the min(limit, n) most recent of its
\* n in-window readings, newest first, whatever the other sensors have
\* reached; with limit <= 0 it returns the empty map.
C18_HistoryPerSensor ==
    reply.op = "history" =>
        IF reply.args.per_sensor_limit <= 0 THEN reply.result = << >>
        ELSE LET inWindow == HistoryEntries
             IN
             /\ DOMAIN reply.result = SensorsIn(inWindow)
             /\ \A id \in SensorsIn(inWindow) :
                    LET all == ReadingsOf(inWindow, id)
                        got == reply.result[id]
                    IN  /\ got = SubSeq(all, 1,
                                        Min({reply.args.per_sensor_limit, Len(all)}))
                        /\ \A i, j \in DOMAIN all :
                                i < j => int(all[i].recordedAt) >= int(all[j].recordedAt)

\* a history read with limit 1 where sensor 1 is over its cap and the one
\* reading of sensor 2 is older than the reading kept for sensor 1
C18_Witness ==
    /\ reply.op = "history"
    /\ reply.args.per_sensor_limit = 1
    /\ DOMAIN reply.result = {1, 2}
    /\ Len(ReadingsOf(HistoryEntries, 1)) >= 2
    /\ int(reply.result[2][1].recordedAt) < int(reply.result[1][1].recordedAt)

\* whether an entry passes the filters of a query
Passes(e, q) ==
    /\ e.device_id = q.device_id
    /\ e.user_id = q.user_id
    /\ Within(e, q.start_time, q.end_time)
    /\ q.status = << >> \/ lower(e.status) = lower(q.status)
    /\ q.sensor_id = NULL
        \/ \E k \in DOMAIN e.sensors : e.sensors[k].sensorId = q.sensor_id

\* the filtered newest-first stream of a query: the entries of the folder
\* that pass, each with its sensor list narrowed to the requested sensor
Matches(q) ==
    LET passing == SelectSeq(FolderEntries(q.device_id, Len(written)),
                             LAMBDA e : Passes(e, q))
    IN  [i \in DOMAIN passing |->
            IF q.sensor_id = NULL THEN passing[i]
            ELSE [passing[i] EXCEPT !.sensors =
                    SelectSeq(@, LAMBDA x : x.sensorId = q.sensor_id)]]

\* matches number (page-1)*pageSize+1 through page*pageSize of a stream
PageOf(stream, page, page_size) ==
    SubSeq(stream, (page - 1) * page_size + 1,
           Min({page * page_size, Len(stream)}))

\* C19: a query_sync_logs call with page >= 1 and pageSize >= 1 returns
\* exactly matches (page-1)*pageSize+1 .. page*pageSize of the filtered
\* newest-first stream, and hasMore iff the stream holds more than
\* page*pageSize matches; over the same log the pages 1, 2, ... are those
\* consecutive slices, so they are disjoint and together cover the stream.
C19_PageIsSlice ==
    reply.op = "query" =>
        LET q == reply.args
            stream == Matches(q)
            folder == FolderEntries(q.device_id, Len(written))
            scanned == [i \in DOMAIN folder |-> <<folder[i]>>]
        IN  /\ reply.result.entries = PageOf(stream, q.page, q.page_size)
            /\ reply.result.has_more = (Len(stream) > q.page * q.page_size)
            /\ \A p \in 1..(Len(stream) + 1) :
                    query_sync_logs(scanned, [q EXCEPT !.page = p]).entries
                        = PageOf(stream, p, q.page_size)

\* the second page of one entry, with a third match left
C19_Witness ==
    /\ reply.op = "query"
    /\ reply.args.page = 2 /\ reply.args.page_size = 1
    /\ Len(reply.result.entries) = 1
    /\ reply.result.has_more
    /\ Len(Matches(reply.args)) = 3

\* C20: query_sync_logs returns only entries of the requested device and
\* user, inside [startTime, endTime] where a bound is given, whose status
\* equals the requested one ignoring case; with sensorId given every
\* returned sensor list holds only that sensor, and entries without it are
\* neither returned nor counted for the offset.
C20_OnlyMatchingEntries ==
    reply.op = "query" =>
        LET q == reply.args
            withSensor == SelectSeq(Matches([q EXCEPT !.sensor_id = NULL]),
                                    LAMBDA e : \E k \in DOMAIN e.sensors :
                                                  e.sensors[k].sensorId = q.sensor_id)
        IN  /\ \A i \in DOMAIN reply.result.entries :
                    LET e == reply.result.entries[i]
                    IN  /\ e.device_id = q.device_id /\ e.user_id = q.user_id
                        /\ q.start_time # NULL => e.timestamp >= q.start_time
                        /\ q.end_time # NULL => e.timestamp <= q.end_time
                        /\ q.status # << >> => lower(e.status) = lower(q.status)
                        /\ q.sensor_id # NULL =>
                                /\ e.sensors # << >>
                                /\ \A k \in DOMAIN e.sensors :
                                        e.sensors[k].sensorId = q.sensor_id
            /\ q.sensor_id # NULL =>
                    /\ Len(reply.result.entries)
                            = Len(PageOf(withSensor, q.page, q.page_size))
                    /\ \A i \in DOMAIN reply.result.entries :
                            reply.result.entries[i].timestamp
                                = PageOf(withSensor, q.page, q.page_size)[i].timestamp

\* page 2 of the "Error" entries of user 1 that hold sensor 2: the entry
\* returned had two sensors, and a newer entry without sensor 2 was skipped
\* without counting
C20_Witness ==
    /\ reply.op = "query"
    /\ reply.args.sensor_id = 2 /\ reply.args.status = <<"Error">>
    /\ reply.args.user_id = 1 /\ reply.args.page = 2
    /\ Len(reply.result.entries) = 1
    /\ reply.result.entries[1].status = <<"error">>
    /\ Len(reply.result.entries[1].sensors) = 1
    /\ Len(written) = 3
    /\ Len(written[2].args.sensors) = 1
    /\ written[2].args.sensors[1].sensorsId = 1
    /\ Len(written[1].args.sensors) = 2

\* the files of a directory that are not older than now - max_age_days
KeptFiles(folder, max_age_days) ==
    {f \in DOMAIN folder :
        MTime(folder[f]) >= (now \div TicksPerSec) - max_age_days * SecondsPerDay}

RECURSIVE Sum(_, _)
Sum(f, S) ==
    IF S = {} THEN 0
    ELSE LET x == CHOOSE y \in S : TRUE IN f[x] + Sum(f, S \ {x})

\* C21: prune_sync_logs(maxAgeDays) deletes nothing and returns 0 when
\* maxAgeDays <= 0; otherwise it deletes exactly the files older than
\* now - maxAgeDays, keeps every other file unchanged, removes the device
\* directories left without a file, and returns the number of files deleted.
C21_PruneExactlyOld ==
    sweep["p"].pc = "done" =>
        LET before == sweep["p"].before
            age == sweep["p"].max_age_days
        IN  IF age <= 0 THEN files = before /\ sweep["p"].result = 0
            ELSE /\ DOMAIN files =
                        {dir \in DOMAIN before : KeptFiles(before[dir], age) # {}}
                 /\ \A dir \in DOMAIN files :
                        /\ DOMAIN files[dir] = KeptFiles(before[dir], age)
                        /\ \A f \in DOMAIN files[dir] : files[dir][f] = before[dir][f]
                 /\ sweep["p"].result =
                        Sum([dir \in DOMAIN before |->
                                Cardinality(DOMAIN before[dir]
                                                \ KeptFiles(before[dir], age))],
                            DOMAIN before)

\* a sweep that deleted the only, old, file of one device together with its
\* directory and kept a newer file of the other device
C21_Witness ==
    /\ sweep["p"].pc = "done"
    /\ sweep["p"].max_age_days = 1
    /\ sweep["p"].result = 1
    /\ DOMAIN sweep["p"].before = {1, 2}
    /\ DOMAIN files = {2}

\* C22: a sweep running next to log writers or another sweep never fails.
C22_SweepNeverFails == \A s \in Sweepers : sweep[s].pc # "failed"

(***************************************************************************)
(* Properties of the webhook                                               *)
(***************************************************************************)
\* the request being answered carried the HMAC-SHA256 hex digest of its raw
\* body, bare or prefixed with sha256=
Signed ==
    hook.signature \in
        { <<hexdigest(hook.secret, hook.raw)>>,
          << <<"sha256", "=">> \o hexdigest(hook.secret, hook.raw) >> }

Answered == hook # NoHook /\ web.response.status # 0

\* C23: with no secret configured no request fails signature verification;
\* with a secret configured a request whose signature header is absent or is
\* not the digest of the raw body (bare or prefixed with sha256=) is
\* answered 401 and writes nothing to the store.
C23_SignatureGate ==
    Answered =>
        /\ hook.secret = NoSecret => hook.verdict \in {"none", "valid"}
        /\ (hook.secret # NoSecret /\ ~Signed) =>
              /\ web.response.status = 401
              /\ <<devices, sensors, readings>> = hook.before

\* the body lacks a required key, or carries it empty
LacksRequired(payload) ==
    \/ payload.deviceId \in {NULL, 0}
    \/ payload.deviceUserid \in {NULL, 0}
    \/ Len(payload.sensorsDates) = 0

\* C24: process_push_payload called with an empty or missing deviceId,
\* deviceUserid or sensorsDates raises the validation error at once, the
\* webhook answers it with 400, and no row is created or updated.
C24_InvalidPushRejected ==
    [][/\ (tx["web"].pc = "idle" /\ tx'["web"].pc # "idle"
              /\ LacksRequired(tx'["web"].payload)) =>
            /\ tx'["web"].pc = "raised"
            /\ tx'["web"].exc = "ValueError"
            /\ tx'["web"].wdev = NoRows
            /\ tx'["web"].wsen = NoRows
            /\ tx'["web"].wread = NoRows
            /\ UNCHANGED <<devices, sensors, readings>>
       /\ (tx["web"].pc # "idle" /\ tx'["web"].pc = "idle"
              /\ LacksRequired(tx["web"].payload)) =>
            /\ web'.response = [status |-> 400, storedReadings |-> 0]
            /\ UNCHANGED <<devices, sensors, readings>>
      ]_vars

\* a push was stored, then a push without sensorsDates was answered 400
C24_Witness ==
    /\ web.calls = 2
    /\ web.response.status = 400
    /\ tx["web"].pc = "idle"
    /\ web.prev.deviceId = 1
    /\ Cardinality(DOMAIN readings) > 0

(***************************************************************************)
(* Properties of the normalisation                                         *)
(***************************************************************************)
\* the first value of a priority-ordered list that is not null
RECURSIVE FirstNonNull(_)
FirstNonNull(candidates) ==
    IF candidates = << >> THEN NULL
    ELSE IF Head(candidates) # NULL THEN Head(candidates)
    ELSE FirstNonNull(Tail(candidates))

\* C25: a normalised record carries in every canonical field the value of
\* the first alias that is not null (0, the empty string and false count as
\* values); a later alias is used only when all earlier ones are null.
C25_FirstNonNullWins ==
    /\ alias.op = "remote" =>
        LET device == alias.record
            payload == alias.result
            kept == SelectSeq(device.sensorsList, LAMBDA e :
                        FirstNonNull(<<e.sensorsId, e.sensorId, e.id>>) # NULL)
        IN  /\ payload.deviceId = FirstNonNull(<<device.id, device.deviceId>>)
            /\ payload.deviceName
                 = FirstNonNull(<<device.deviceName, device.device_name>>)
            /\ payload.groupId = FirstNonNull(<<device.groupId, device.group_id>>)
            /\ Len(payload.sensorsDates) = Len(kept)
            /\ \A i \in DOMAIN kept :
                /\ payload.sensorsDates[i].sensorsId
                     = FirstNonNull(<<kept[i].sensorsId, kept[i].sensorId, kept[i].id>>)
                /\ payload.sensorsDates[i].reVal
                     = FirstNonNull(<<kept[i].send_value, kept[i].value>>)
                /\ payload.sensorsDates[i].times
                     = FirstNonNull(<<kept[i].updateDate, kept[i].heartbeatDate>>)
    /\ alias.op = "push" =>
        LET payload == alias.record
            kept == SelectSeq(payload.sensorsDates, LAMBDA e : e.sensorsId # NULL)
        IN  /\ alias.result.device.device_name
                 = FirstNonNull(<<payload.deviceName, payload.device_name>>)
            /\ alias.result.device.device_no
                 = FirstNonNull(<<payload.deviceNo, payload.device_no, payload.rawData>>)
            /\ \A i \in DOMAIN kept :
                /\ alias.result.sensors[i].latest_value
                     = FirstNonNull(<<kept[i].value, kept[i].reVal>>)
                /\ alias.result.sensors[i].sensor_name
                     = FirstNonNull(<<kept[i].sensorName, kept[i].sensor_name>>)
    /\ alias.op = "snapshot" =>
        \A i \in DOMAIN alias.record :
            /\ alias.result[i].sensorId = alias.record[i].sensorsId
            /\ alias.result[i].reVal = alias.record[i].reVal

(***************************************************************************)
(* Properties of the records a sync pass cannot resolve                    *)
(***************************************************************************)
\* none of the identifier keys of the sensor / of the device is set
SensorNameless(sensor) ==
    sensor.sensorsId = NULL /\ sensor.sensorId = NULL /\ sensor.id = NULL
DeviceNameless(device) == device.id = NULL /\ device.deviceId = NULL

\* the records of the remote answer that normalise to the payload
SourcesOf(payload) ==
    {device \in RemoteDevices :
        payload_from_remote_device(device, UserId, FlagOk) = payload}

TransportErrors == {"HTTPError", "ConnectionError"}

\* C27: when the remote answer carries a flag other than "00" the pass ends
\* in failure at once, no record being processed or stored, and the error
\* it ends with is one no transport failure ends a pass with.
C27_BadFlagIsTerminal ==
    [][/\ (sync.pc = "idle" /\ sync' # sync /\ sync'.flag \notin {NULL, FlagOk}) =>
            /\ sync'.pc = "idle"
            /\ sync'.outcome = "failed"
            /\ sync'.summary = ZeroSummary
            /\ sync'.exc \notin TransportErrors \cup {"none"}
            /\ UNCHANGED <<devices, sensors, readings, tx>>
       /\ (sync'.outcome = "failed" /\ sync'.exc = "RuntimeError") =>
            sync'.flag = FlagBad
      ]_vars

\* a pass stored a device; the next pass got an answer with another flag
\* and failed, the stored rows staying as they were
C27_Witness ==
    /\ sync.outcome = "failed"
    /\ sync.flag = FlagBad
    /\ sync.exc = "RuntimeError"
    /\ Len(log) = 1 /\ log[1].status = "success"
    /\ devices # NoRows

\* the step ends a pass: completed, failed or skipped
PassEnds == sync' # sync /\ sync'.pc = "idle"

\* C28: export_atg_snapshot is invoked exactly once by each pass that
\* completes, at its end, and not at all by a pass that is aborted or is
\* skipped for want of an account.
C28_ExportOncePerCompletedPass ==
    [][/\ PassEnds =>
            sync'.exports = IF sync'.outcome = "completed" THEN 1 ELSE 0
       /\ sync'.exports # sync.exports =>
            \/ sync'.exports = 0
            \/ sync.pc = "loop" /\ sync.exports = 0 /\ sync'.outcome = "completed"
      ]_vars

\* a pass stored a device, completed and exported; before it one was
\* aborted by a failure of the remote call
C28_Witness ==
    /\ sync.outcome = "completed"
    /\ sync.exports = 1
    /\ Len(log) = 2
    /\ log[1].status = "error" /\ log[1].message = "remote call failed"
    /\ log[2].status = "success"

(***************************************************************************)
(* Properties of the reading history                                       *)
(***************************************************************************)
\* C29: no step of the pipeline (webhook push, sync pass, repeated insert,
\* retention sweep) changes or removes a reading row that exists, in the
\* store or pending in a transaction; the sweep changes nothing but the
\* log files.
C29_ReadingsImmutable ==
    [][/\ \A id \in DOMAIN readings :
            id \in DOMAIN readings' /\ readings'[id] = readings[id]
       /\ \A t \in Threads : \A id \in DOMAIN readings :
            id \in DOMAIN tx'[t].wread => tx'[t].wread[id] = readings[id]
       /\ sweep' # sweep =>
            UNCHANGED <<devices, sensors, readings, tx, web, sync, log>>
      ]_vars

\* a reading was pushed, two passes met it again with another value and
\* inserted nothing, and the sweep deleted a log file
C29_Witness ==
    /\ Cardinality(DOMAIN readings) > 0
    /\ sync.outcome = "completed"
    /\ web.response.status = 200
    /\ Len(log) = 2
    /\ \A i \in DOMAIN log : log[i].status = "success" /\ log[i].readings = 1
    /\ Cardinality(DOMAIN readings) = 1
    /\ sweep["p"].pc = "done" /\ sweep["p"].result = 1

(***************************************************************************)
(* Properties of the task decorator                                        *)
(***************************************************************************)
Called(callback) == \E i \in DOMAIN task.called : task.called[i] = callback

\* C30: in every execution of a decorated function on_success is called if
\* and only if the function raised nothing, on_failed if and only if it
\* raised, so one of the two and never both, and on_complete is called
\* after them in both cases (each of them if the decorator was given it).
C30_CallbacksMatchOutcome ==
    task.pc \in {"returned", "raised"} =>
        /\ "on_success" \in task.given => (Called("on_success") <=> ~task.raised)
        /\ "on_failed" \in task.given => (Called("on_failed") <=> task.raised)
        /\ ~(Called("on_success") /\ Called("on_failed"))
        /\ "on_complete" \in task.given =>
              /\ task.called # << >>
              /\ task.called[Len(task.called)] = "on_complete"

\* C31: a task that was disabled (by disable_task, or created with
\* disabled=True) and not enabled since starts no execution; a task that is
\* enabled and not running executes when its schedule calls it.
C31_DisabledNeverStarts ==
    [][/\ (task.pc = "idle" /\ task'.pc = "func") => task.wrapper_is_enable
       /\ (task.pc = "idle" /\ task'.pc = "skipped") =>
            ~task.wrapper_is_enable \/ task.is_running
      ]_vars

(***************************************************************************)
(* Properties of the remote call of a sync pass                            *)
(***************************************************************************)
\* the step in which sync_user_devices handles the exception of the call
HandlesRemoteFailure ==
    /\ api[PassThread].pc = "done" /\ api'[PassThread].pc = "idle"
    /\ api[PassThread].result # "json"

\* C32: when the remote call of a pass fails (HTTP error, network error,
\* second 401, body that is not JSON, no token to be had), exactly one
\* error entry is appended, with the HTTP status if the failure has one,
\* the exception ends the pass, and the pass processes no device.
C32_RemoteFailureLoggedOnce ==
    [][HandlesRemoteFailure =>
          LET a == api[PassThread]
              e == log'[Len(log')] IN
          /\ Len(log') = Len(log) + 1
          /\ SubSeq(log', 1, Len(log)) = log
          /\ e.status = "error"
          /\ logfs = "ok" => e.written
          /\ a.result = "HTTPError" => e.http = a.http /\ e.http # NULL
          /\ a.result # "HTTPError" => e.http = NULL
          /\ sync'.pc = "idle" /\ sync'.outcome = "failed"
          /\ sync'.exc = a.result
          /\ sync'.exports = 0
          /\ UNCHANGED <<devices, sensors, readings, tx>>
      ]_vars

\* a pass whose request was answered 401 twice: the second 401 is the
\* logged status
C32_Witness ==
    /\ api[PassThread].pc = "idle"
    /\ api[PassThread].statuses = <<"unauthorized", "unauthorized">>
    /\ sync.outcome = "failed" /\ sync.exc = "HTTPError"
    /\ Len(log) = 1 /\ log[1].http = 401 /\ log[1].written

\* the threads that are executing the function of the task
Executing == {w \in Workers : task.workers[w] = "func"}

\* C33: at no moment, under any interleaving of its threads, is more than
\* one execution of a scheduled task in progress.
C33_AtMostOneExecution == Cardinality(Executing) <= 1

(***************************************************************************)
(* Properties of concurrent appends                                        *)
(***************************************************************************)
\* the line of the k-th write_sync_log call is a line of its file
LineInFile(k) ==
    LET args == written[k].args
        folder == FolderOf(files, args.device_id)
        date_str == written[k].time \div SecondsPerDay
    IN  /\ date_str \in DOMAIN folder
        /\ \E i \in DOMAIN folder[date_str] :
              folder[date_str][i] = LogLine(written[k].time, args)

\* C34: appends to the same device-day file are serialized: the line of
\* every write_sync_log call that has returned is in the file whole and
\* contiguous, never mixed with part of another call's line.
C34_LinesWhole ==
    \A k \in DOMAIN written :
        (\A w \in Writers : pending[w].call # k) => LineInFile(k)

\* the write_sync_log calls that put their line in the file of that
\* device and day
CallsInto(device_id, date_str) ==
    {k \in DOMAIN written :
        /\ written[k].args.device_id = device_id
        /\ written[k].time \div SecondsPerDay = date_str}

\* C35: every write_sync_log call adds exactly one line to its device-day
\* file as the readers split it, whatever its message contains.
C35_OneLinePerCall ==
    \A device_id \in DOMAIN files : \A date_str \in DOMAIN files[device_id] :
        Len(splitlines(read_text(files[device_id][date_str])))
            = Cardinality(CallsInto(device_id, date_str))

(***************************************************************************)
(* Properties of the export                                                *)
(***************************************************************************)
\* C36: in the export entry of a sensor whose device has a parseable last
\* push time, connect is true if and only if the TTL is not positive or the
\* age of the last push is at most the TTL.
C36_ConnectFollowsTtl ==
    LET last_push == coerce_datetime(export.last_push_time)
        age == export.clock - last_push
    IN  (export # NoExport /\ last_push # NULL) =>
            (export.connect <=> (export.ttl <= 0 \/ age <= export.ttl * TicksPerSec))

(***************************************************************************)
(* Properties of the latest state                                          *)
(***************************************************************************)
\* C37: after any sequence of pushes and sync passes, duplicates and
\* out-of-order deliveries among them, latest_recorded_at of every sensor
\* row is not earlier than recorded_at of any reading row of that sensor.
C37_LatestNeverBehindReadings ==
    \A s \in DOMAIN sensors : \A r \in DOMAIN readings :
        readings[r].sensor_id = s =>
            /\ sensors[s].latest_recorded_at # NULL
            /\ sensors[s].latest_recorded_at >= readings[r].recorded_at

(***************************************************************************)
(* Properties of the Authorization header and of invalidate_token          *)
(***************************************************************************)
\* C38: every header get_authorization_header returns pairs its token with
\* the token type the response of that token supplied, or with Bearer when
\* that response supplied none.
C38_TypeOfSameResponse ==
    \A t \in ApiThreads : \A i \in DOMAIN api[t].headers :
        api[t].headers[i][1] = Or2(api[t].headers[i][3], Bearer)

\* C39: an invalidate_token issued for a rejected token leaves a newer
\* token, which another caller has fetched since, in the cache.
C39_InvalidateKeepsNewerToken ==
    [][\A t \in ApiThreads :
          (/\ api[t].pc = "invalidate" /\ api'[t].pc # "invalidate"
           /\ cache.access_token # NULL
           /\ cache.access_token # api[t].token)
          => cache'.access_token = cache.access_token
      ]_vars

(***************************************************************************)
(* Properties of the running flag                                          *)
(***************************************************************************)
\* C40: after every execution of a scheduled task, whether its function
\* returned or raised, the running flag returns to false, so that a later
\* tick can start a new execution.
C40_RunningFlagCleared == task.is_running ~> ~task.is_running

====
